---- MODULE Spec2Model ----
(***************************************************************************)
(* tg_searcher: the ingestion pipeline (BackendBot), its monitoring        *)
(* policy, the Index Gateway it drives and the Archival Sink (AWSClient).  *)
(*                                                                         *)
(* Spec      the running bot: live events, operator commands and backfill  *)
(* SinkSpec  the Archival Sink's structured store driven directly          *)
(***************************************************************************)
EXTENDS Integers, Sequences, FiniteSets, Bags, TLC

\* ------------------------------------------------------------------ bounds
\* Messages the platform holds (ids 1..MaxMsgId, assigned in increasing order).
MaxMsgId == 2
\* Edits, /monitor_chat and /clear commands of one behaviour.
MaxOps == 1
\* /download_chat commands accepted in one behaviour.
MaxBackfills == 1

\* ------------------------------------------------------------- environment
\* Canonical chat identifiers.
Chats == {1, 2}
\* Raw identifiers an operator may type: chat 1 in its short and its full
\* form, chat 2 in its short form.
RawIds == {1, -101, 2}
\* The raw form the platform puts in the events of a chat: chat 1 is a
\* supergroup (full form), chat 2 a private chat (short form).
RawOf(c) == IF c = 1 THEN -101 ELSE c
\* event.chat_id of a delete notification that carries no chat (None).
NoChat == 0
\* Raw message texts: empty, whitespace only, one that needs escaping, one
\* that needs stripping.
RawTexts == {"", " ", "<", " b"}
\* message.date.timestamp() and the sender's display name of message id:
\* ids 1 and 2 are posted in the same second; even ids have no user sender.
DateOf(id) == (id + 1) \div 2
SenderOf(id) == IF id % 2 = 1 THEN "ann" ELSE ""
\* Timestamps of records handed to the structured store directly.
Timestamps == {1, 2}

VARIABLES
    monitor_all,      \* BackendBotConfig.monitor_all
    cloudstorage,     \* BackendBotConfig.cloudstorage (self._cloud_client set)
    excluded_chats,   \* BackendBot.excluded_chats
    monitored_chats,  \* BackendBot.monitored_chats
    index,            \* the Indexer's documents: a bag of IndexMsg
    dynamo,           \* the structured store's table: a set of items
    platform,         \* the chat platform's messages: platform[id]
    bf,               \* the download_history call in flight
    nops,             \* edits, /monitor_chat and /clear commands so far
    nbackfills,       \* /download_chat commands accepted so far
    ev,               \* the event the last step handled
    calls,            \* the gateway and sink calls the last step issued
    fcfg,             \* BotFrontendConfig: no_redis, page_len
    redis,            \* BotFrontend._redis: key -> value
    bot_msgs,         \* the messages of the bot's chats: bot_msgs[chat][id]
    nfront,           \* callback queries and losses of the store so far
    rendered          \* the action strip last rendered, with its inputs

vars == <<monitor_all, cloudstorage, excluded_chats, monitored_chats, index,
          dynamo, platform, bf, nops, nbackfills,
          ev, calls, fcfg, redis, bot_msgs, nfront, rendered>>
cfgvars == <<monitor_all, cloudstorage, excluded_chats>>
frontvars == <<fcfg, redis, bot_msgs, nfront, rendered>>

\* ------------------------------------------------------------------ common
\* common.get_share_id: the full form -(100.. + id) and the short form id of
\* a chat reduce to id.
get_share_id(chat_id) == IF chat_id < 0 THEN (0 - chat_id) - 100 ELSE chat_id

\* BackendBot.str_to_chat_id -> ClientSession.str_to_chat_id: the operator's
\* chat reference, resolved to the canonical id.
str_to_chat_id(chat) == get_share_id(chat)

\* str.strip() on the raw texts of the model.
strip(t) == CASE t = " " -> "" [] t = " b" -> "b" [] OTHER -> t

\* common.escape_content: HTML-escapes the text.
escape_content(t) == IF t = "<" THEN "&lt;" ELSE t

\* f'https://t.me/c/{share_id}/{id}'
Url(share_id, id) == <<share_id, id>>

\* BackendBot._extract_text
_extract_text(raw_text) ==
    IF raw_text # "" /\ Len(strip(raw_text)) >= 0
    THEN escape_content(strip(raw_text))
    ELSE ""

\* BackendBot._should_monitor without the call of get_share_id.
_should_monitor_raw(chat_id) ==
    IF monitor_all THEN chat_id \notin excluded_chats
    ELSE chat_id \in monitored_chats

\* BackendBot._should_monitor
_should_monitor(chat_id) ==
    LET share_id == get_share_id(chat_id) IN
    IF monitor_all THEN share_id \notin excluded_chats
    ELSE share_id \in monitored_chats

\* ----------------------------------------------------------- Index Gateway
IndexMsg(content, url, chat_id, post_time, sender) ==
    [content |-> content, url |-> url, chat_id |-> chat_id,
     post_time |-> post_time, sender |-> sender]

RECURSIVE SumCopies(_, _)
SumCopies(S, ix) ==
    IF S = {} THEN 0
    ELSE LET r == CHOOSE x \in S : TRUE
         IN CopiesIn(r, ix) + SumCopies(S \ {r}, ix)

\* The documents S of ix, with their multiplicities.
Restrict(ix, S) == [r \in S |-> CopiesIn(r, ix)]

UnderUrl(ix, url) == {r \in BagToSet(ix) : r.url = url}
CountUrl(ix, url) == SumCopies(UnderUrl(ix, url), ix)

\* Indexer.add_document: appends one document (no uniqueness check).
add_document(ix, msg) == ix (+) SetToBag({msg})

\* Indexer.update(url, content), an upsert: the content of the documents
\* under url is replaced in place; with no document under url one is created
\* from what the call carries, the url and the content.
update(ix, url, content) ==
    IF UnderUrl(ix, url) = {}
    THEN ix (+) SetToBag({IndexMsg(content, url, 0, 0, "<absent>")})
    ELSE LET S == BagToSet(ix)
             new(r) == IF r.url = url THEN [r EXCEPT !.content = content] ELSE r
             T == {new(r) : r \in S}
         IN [t \in T |-> SumCopies({r \in S : new(r) = t}, ix)]

\* Indexer.delete(url): removes the documents under url; none is no error.
delete(ix, url) == Restrict(ix, {r \in BagToSet(ix) : r.url # url})

\* writer.delete_by_term('chat_id', str(chat_id))
delete_by_term(ix, chat_id) ==
    Restrict(ix, {r \in BagToSet(ix) : r.chat_id # chat_id})

\* Indexer.list_indexed_chats
list_indexed_chats(ix) == {r.chat_id : r \in BagToSet(ix)}

\* ix.doc_count()
doc_count(ix) == BagCardinality(ix)

\* BackendBot.is_empty
is_empty(ix, chat_id) == ~ \E r \in BagToSet(ix) : r.chat_id = chat_id
is_empty_all(ix) == BagToSet(ix) = {}

\* ----------------------------------------------------------- Archival Sink
\* model.TelegramMessage as emitted by .dict(by_alias=True)
TelegramMessage(chat_id, message_id, text, timestamp) ==
    [chatId |-> chat_id, messageId |-> message_id, text |-> text,
     timestamp |-> timestamp]

\* The attribute names of an emitted item (the aliases of model.py).
ItemAttributes ==
    {"chatId", "messageId", "timestamp", "user", "text", "media", "replyTo",
     "isForward", "fwdFrom"}

\* aws.DEFAULT_KEY_SCHEMA: the table's primary key, chatId (HASH) and
\* timestamp (RANGE).
SameKey(r, item) == r.chatId = item.chatId /\ r.timestamp = item.timestamp

\* ConditionExpression of put_item, evaluated on the stored item with the
\* primary key of the new one: attribute_not_exists(chat_id) AND
\* attribute_not_exists(#ts), #ts = timestamp.
ConditionHolds(existing) ==
    /\ (existing = {} \/ "chat_id" \notin ItemAttributes)
    /\ (existing = {} \/ "timestamp" \notin ItemAttributes)

\* AWSClient.put_item_to_dynamo: the table afterwards and whether it raised.
put_item_to_dynamo(db, item) ==
    LET existing == {r \in db : SameKey(r, item)} IN
    IF ConditionHolds(existing)
    THEN [table |-> (db \ existing) \cup {item}, raised |-> FALSE]
    ELSE [table |-> db, raised |-> TRUE]

\* Whether AWSClient has the attribute check_message_exist that
\* cloud_upload_message awaits: the class (aws.py) defines none, so the
\* lookup raises AttributeError inside the try block.
HasCheckMessageExist == FALSE

\* The existence pre-check as the caller means it: a stored row of the
\* message.
check_message_exist(db, chat_id, message_id) ==
    \E r \in db : r.chatId = chat_id /\ r.messageId = message_id

\* BackendBot.cloud_upload_message: the table afterwards. Every exception
\* of the body is caught and logged.
cloud_upload_message(db, raw_chat_id, id, text, skip_existing) ==
    IF ~cloudstorage THEN db
    ELSE IF ~HasCheckMessageExist THEN db
    ELSE LET chat_id == get_share_id(raw_chat_id) IN
         IF check_message_exist(db, chat_id, id) /\ skip_existing THEN db
         ELSE put_item_to_dynamo(
                  db, TelegramMessage(chat_id, id, text, DateOf(id))).table

\* The exception a step of the body of cloud_upload_message raises, "" when
\* none does: the lookup of check_message_exist (AttributeError), the
\* conditional write (RuntimeError of put_item_to_dynamo).
cloud_upload_failure(db, raw_chat_id, id, text, skip_existing) ==
    IF ~cloudstorage THEN ""
    ELSE IF ~HasCheckMessageExist THEN "AttributeError"
    ELSE LET chat_id == get_share_id(raw_chat_id) IN
         IF check_message_exist(db, chat_id, id) /\ skip_existing THEN ""
         ELSE IF put_item_to_dynamo(
                     db, TelegramMessage(chat_id, id, text, DateOf(id))).raised
              THEN "RuntimeError"
              ELSE ""

\* The classes `except Exception` catches.
ExceptionClasses == {"AttributeError", "RuntimeError"}

\* cloud_upload_message with the body outside try/except: a failure leaves
\* the call.
cloud_upload_raises_no_except(db, raw_chat_id, id, text, skip_existing) ==
    cloud_upload_failure(db, raw_chat_id, id, text, skip_existing) # ""

\* Whether the call of cloud_upload_message raises: the body is inside
\* try ... except Exception, which logs and returns.
cloud_upload_raises(db, raw_chat_id, id, text, skip_existing) ==
    LET e == cloud_upload_failure(db, raw_chat_id, id, text, skip_existing)
    IN  e # "" /\ e \notin ExceptionClasses

\* ------------------------------------------------------------------- state
\* A call issued: the operation, the url (chat, message) it names and the
\* number of documents or rows it added, replaced or removed.
Call(op, url, n) == [op |-> op, url |-> url, n |-> n]
HasOp(cs, op) == \E k \in DOMAIN cs : cs[k].op = op
Event(kind, chat_id, ids) == [kind |-> kind, chat_id |-> chat_id, ids |-> ids]
NoEvent == Event("none", NoChat, {})

Message(chat, text) == [chat |-> chat, text |-> text, deleted |-> FALSE]
Idle ==
    [pc |-> "idle", chat_id |-> NoChat, share_id |-> NoChat, min_id |-> 0,
     max_id |-> 0, cloud |-> FALSE, skip_indexing |-> FALSE,
     skip_existing |-> TRUE, cursor |-> 0, msg_list |-> <<>>, cnt |-> 0,
     edited |-> {}, deleted |-> {}]

\* The chats users talk to the bot in.
BotChats == {10, 11}
\* FakeRedis._data = {}
EmptyStore == [k \in {} |-> 0]
\* BotFrontendConfig.page_len
DefaultPageLen == 10
NoRender ==
    [total_results |-> 0, is_last_page |-> TRUE, page_len |-> 1,
     cur_page_num |-> 1,
     buttons |-> [former_page |-> <<>>, next_page |-> <<>>,
                  cur_page_num |-> 1, total_pages |-> 0]]

\* The front end after construction: no message, nothing stored.
FrontIdle ==
    /\ fcfg = [no_redis |-> TRUE, page_len |-> DefaultPageLen]
    /\ redis = EmptyStore
    /\ bot_msgs = [c \in BotChats |-> <<>>]
    /\ nfront = 0
    /\ rendered = NoRender

\* The state after construction: a clean index, so an empty monitored set.
\* Chat 1 has a history, one message posted before the bot started, which
\* the structured store (durable, shared with earlier runs) may hold.
Init ==
    /\ monitor_all \in BOOLEAN
    /\ cloudstorage \in BOOLEAN
    /\ excluded_chats \in {{}, {2}}
    /\ nops = 0
    /\ nbackfills = 0
    /\ index = EmptyBag
    /\ monitored_chats = list_indexed_chats(index)
    /\ platform = <<Message(1, "<")>>
    /\ dynamo \in IF cloudstorage
                 THEN {{}, {TelegramMessage(1, 1, "<", DateOf(1))}}
                 ELSE {{}}
    /\ bf = Idle
    /\ ev = NoEvent
    /\ calls = <<>>
    /\ FrontIdle

\* An edit, a /monitor_chat or a /clear is counted.
Op == nops < MaxOps /\ nops' = nops + 1 /\ UNCHANGED nbackfills

LiveIds(c) ==
    {i \in DOMAIN platform : platform[i].chat = c /\ ~platform[i].deleted}

\* ------------------------------------------------------------- live events
\* The ids among ids of chat share_id whose documents the download_history
\* call in flight has fetched and buffered, not yet committed.
Buffered(share_id, ids) ==
    {i \in ids : /\ bf.pc = "iter" /\ bf.share_id = share_id
                 /\ \E k \in DOMAIN bf.msg_list :
                        bf.msg_list[k].url = Url(share_id, i)}

\* client_message_handler with the upload outside the monitoring gate.
client_message_handler_upload_ungated(chat_id, id, raw_text) ==
    LET msg_text == _extract_text(raw_text)
        share_id == get_share_id(chat_id)
        url == Url(share_id, id)
        msg == IndexMsg(msg_text, url, share_id, DateOf(id), SenderOf(id))
        gated == _should_monitor(chat_id)
    IN  [index |-> IF gated /\ msg_text # "" THEN add_document(index, msg)
                   ELSE index,
         dynamo |-> IF cloudstorage
                    THEN cloud_upload_message(dynamo, chat_id, id, raw_text, TRUE)
                    ELSE dynamo,
         calls |-> (IF gated /\ msg_text # "" THEN <<Call("add", url, 1)>>
                    ELSE <<>>)
                   \o (IF cloudstorage
                       THEN <<Call("cloud_upload_message", url, 0)>>
                       ELSE <<>>)]

\* client_message_handler: the index and the table afterwards and the calls
\* issued.
client_message_handler(chat_id, id, raw_text) ==
    LET msg_text == _extract_text(raw_text)
        share_id == get_share_id(chat_id)
        url == Url(share_id, id)
        msg == IndexMsg(msg_text, url, share_id, DateOf(id), SenderOf(id))
        gated == _should_monitor(chat_id)
    IN  [index |-> IF gated /\ msg_text # "" THEN add_document(index, msg)
                   ELSE index,
         dynamo |-> IF gated /\ cloudstorage
                    THEN cloud_upload_message(dynamo, chat_id, id, raw_text, TRUE)
                    ELSE dynamo,
         calls |-> (IF gated /\ msg_text # "" THEN <<Call("add", url, 1)>>
                    ELSE <<>>)
                   \o (IF gated /\ cloudstorage
                       THEN <<Call("cloud_upload_message", url, 0)>>
                       ELSE <<>>)
                   \o (IF gated /\ cloudstorage
                          /\ cloud_upload_raises(dynamo, chat_id, id, raw_text, TRUE)
                       THEN <<Call("raise", url, 0)>>
                       ELSE <<>>)]

\* A message is posted in chat c and its NewMessage event is handled.
NewMessage ==
    \E c \in Chats, t \in RawTexts :
        /\ Len(platform) < MaxMsgId
        /\ LET id == Len(platform) + 1
               r == client_message_handler(RawOf(c), id, t)
           IN  /\ platform' = Append(platform, Message(c, t))
               /\ index' = r.index
               /\ dynamo' = r.dynamo
               /\ calls' = r.calls
               /\ ev' = Event("new", RawOf(c), {id})
        /\ UNCHANGED <<frontvars, cfgvars, monitored_chats, bf, nops, nbackfills>>

\* client_message_update_handler with the url built from the raw chat id.
client_message_update_handler_raw_url(chat_id, id, raw_text) ==
    LET msg_text == _extract_text(raw_text)
        url == Url(chat_id, id)
        taken == _should_monitor(chat_id) /\ msg_text # ""
    IN  [index |-> IF taken THEN update(index, url, msg_text) ELSE index,
         dynamo |-> IF taken /\ cloudstorage
                    THEN cloud_upload_message(dynamo, chat_id, id, raw_text, FALSE)
                    ELSE dynamo,
         calls |-> (IF taken
                    THEN <<Call("update", url, CountUrl(index, url))>>
                    ELSE <<>>)
                   \o (IF taken /\ cloudstorage
                       THEN <<Call("cloud_upload_message", url, 0)>>
                       ELSE <<>>)]

\* client_message_update_handler
client_message_update_handler(chat_id, id, raw_text) ==
    LET msg_text == _extract_text(raw_text)
        share_id == get_share_id(chat_id)
        url == Url(share_id, id)
        taken == _should_monitor(chat_id) /\ msg_text # ""
    IN  [index |-> IF taken THEN update(index, url, msg_text) ELSE index,
         dynamo |-> IF taken /\ cloudstorage
                    THEN cloud_upload_message(dynamo, chat_id, id, raw_text, FALSE)
                    ELSE dynamo,
         calls |-> (IF taken
                    THEN <<Call("update", url, CountUrl(index, url))>>
                    ELSE <<>>)
                   \o (IF taken /\ cloudstorage
                       THEN <<Call("cloud_upload_message", url, 0)>>
                       ELSE <<>>)
                   \o (IF taken /\ cloudstorage
                          /\ cloud_upload_raises(dynamo, chat_id, id, raw_text, FALSE)
                       THEN <<Call("raise", url, 0)>>
                       ELSE <<>>)]

\* A message is edited and its MessageEdited event is handled.
EditMessage ==
    \E id \in DOMAIN platform, t \in RawTexts :
        /\ ~platform[id].deleted
        /\ LET c == platform[id].chat
               r == client_message_update_handler(RawOf(c), id, t)
           IN  /\ platform' = [platform EXCEPT ![id].text = t]
               /\ index' = r.index
               /\ dynamo' = r.dynamo
               /\ calls' = r.calls
               /\ ev' = Event("edit", RawOf(c), {id})
               /\ bf' = IF HasOp(r.calls, "update")
                        THEN [bf EXCEPT !.edited = @ \cup Buffered(c, {id})]
                        ELSE bf
        /\ Op
        /\ UNCHANGED <<frontvars, cfgvars, monitored_chats>>

\* The ids of a notification in the order the handler walks them.
RECURSIVE Ascending(_)
Ascending(S) ==
    IF S = {} THEN <<>>
    ELSE LET m == CHOOSE x \in S : \A y \in S : x <= y
         IN <<m>> \o Ascending(S \ {m})

RECURSIVE DeleteAll(_, _, _)
DeleteAll(ix, share_id, ids) ==
    IF ids = {} THEN ix
    ELSE LET i == CHOOSE x \in ids : TRUE
         IN DeleteAll(delete(ix, Url(share_id, i)), share_id, ids \ {i})

\* client_message_delete_handler with the urls built from the raw chat id.
client_message_delete_handler_raw_url(chat_id, deleted_ids) ==
    IF chat_id = NoChat THEN index
    ELSE IF _should_monitor(chat_id)
         THEN DeleteAll(index, chat_id, deleted_ids)
         ELSE index

\* client_message_delete_handler
client_message_delete_handler(chat_id, deleted_ids) ==
    IF chat_id = NoChat THEN index
    ELSE IF _should_monitor(chat_id)
         THEN DeleteAll(index, get_share_id(chat_id), deleted_ids)
         ELSE index

\* Messages of chat c are deleted and the MessageDeleted event is handled;
\* the notification may carry no chat id (event.chat_id is None).
DeleteMessages ==
    \E c \in Chats, ids \in SUBSET (DOMAIN platform), hasChat \in BOOLEAN :
        /\ ids # {}
        /\ ids \subseteq LiveIds(c)
        /\ LET chat_id == IF hasChat THEN RawOf(c) ELSE NoChat IN
           /\ index' = client_message_delete_handler(chat_id, ids)
           /\ calls' = IF chat_id # NoChat /\ _should_monitor(chat_id)
                       THEN LET order == Ascending(ids)
                                u(k) == Url(get_share_id(chat_id), order[k])
                            IN [k \in DOMAIN order |->
                                   Call("delete", u(k), CountUrl(index, u(k)))]
                       ELSE <<>>
           /\ ev' = Event("delete", chat_id, ids)
           /\ bf' = IF chat_id # NoChat /\ _should_monitor(chat_id)
                    THEN [bf EXCEPT !.deleted = @ \cup Buffered(c, ids)]
                    ELSE bf
        /\ platform' = [i \in DOMAIN platform |->
                           IF i \in ids
                           THEN [platform[i] EXCEPT !.deleted = TRUE, !.text = ""]
                           ELSE platform[i]]
        /\ UNCHANGED <<frontvars, cfgvars, monitored_chats, dynamo, nops, nbackfills>>

\* ------------------------------------------------------- operator commands
\* /monitor_chat CHAT (BotFrontend._admin_msg_handler)
MonitorChat ==
    \E raw \in RawIds :
        /\ monitored_chats' = monitored_chats \cup {str_to_chat_id(raw)}
        /\ ev' = Event("monitor_chat", str_to_chat_id(raw), {})
        /\ calls' = <<>>
        /\ Op
        /\ UNCHANGED <<frontvars, cfgvars, index, dynamo, platform, bf>>

\* The chat lists of a /clear command, as the operator types them.
ClearLists == {<<-101>>, <<2>>, <<1, 2>>, <<2, 1>>}

RECURSIVE clear_index(_, _)
clear_index(ix, chat_ids) ==
    IF chat_ids = <<>> THEN ix
    ELSE clear_index(delete_by_term(ix, Head(chat_ids)), Tail(chat_ids))

\* The second loop of BackendBot.clear: set.remove raises KeyError at the
\* first chat that is not in the set and the loop ends there.
RECURSIVE clear_monitored(_, _)
clear_monitored(S, chat_ids) ==
    IF chat_ids = <<>> THEN S
    ELSE IF Head(chat_ids) \notin S THEN S
    ELSE clear_monitored(S \ {Head(chat_ids)}, Tail(chat_ids))

RECURSIVE clear_raises(_, _)
clear_raises(S, chat_ids) ==
    IF chat_ids = <<>> THEN FALSE
    ELSE IF Head(chat_ids) \notin S THEN TRUE
    ELSE clear_raises(S \ {Head(chat_ids)}, Tail(chat_ids))

\* /clear CHAT... -> BackendBot.clear(chat_ids)
Clear ==
    \E raws \in ClearLists :
        LET chat_ids == [k \in DOMAIN raws |-> str_to_chat_id(raws[k])] IN
        /\ index' = clear_index(index, chat_ids)
        /\ monitored_chats' = clear_monitored(monitored_chats, chat_ids)
        /\ ev' = Event("clear", NoChat, {chat_ids[k] : k \in DOMAIN chat_ids})
        /\ calls' = [k \in DOMAIN chat_ids |->
                        Call("delete_by_term", Url(chat_ids[k], 0), 0)]
                    \o (IF clear_raises(monitored_chats, chat_ids)
                        THEN <<Call("KeyError", Url(NoChat, 0), 0)>>
                        ELSE <<>>)
        /\ Op
        /\ UNCHANGED <<frontvars, cfgvars, dynamo, platform, bf>>

\* /clear all -> BackendBot.clear(None)
ClearAll ==
    /\ index' = EmptyBag
    /\ monitored_chats' = {}
    /\ ev' = Event("clear_all", NoChat, {})
    /\ calls' = <<>>
    /\ Op
    /\ UNCHANGED <<frontvars, cfgvars, dynamo, platform, bf>>

\* ---------------------------------------------------------------- backfill
\* args.min or 1, args.max or 1 << 31 - 1
DefaultMinId == 1
DefaultMaxId == 1073741824

\* The options of a /download_chat command: none, --min 1, --min 2, --max 1,
\* --cloud, --archive (min, max 0: the option is not given, args.min or
\* args.max is None).
DownloadArgs ==
    {[min |-> 0, max |-> 0, cloud |-> FALSE, archive |-> FALSE],
     [min |-> 1, max |-> 0, cloud |-> FALSE, archive |-> FALSE],
     [min |-> 2, max |-> 0, cloud |-> FALSE, archive |-> FALSE],
     [min |-> 0, max |-> 1, cloud |-> FALSE, archive |-> FALSE],
     [min |-> 0, max |-> 0, cloud |-> TRUE, archive |-> FALSE],
     [min |-> 0, max |-> 0, cloud |-> FALSE, archive |-> TRUE]}

\* min_id = args.min or 1, max_id = args.max or 1 << 31 - 1
arg_min_id(a) == IF a.min # 0 THEN a.min ELSE DefaultMinId
arg_max_id(a) == IF a.max # 0 THEN a.max ELSE DefaultMaxId

\* The guard of BotFrontend._download_history without `not skip_indexing`.
download_rejected_archive_too(chat_id, min_id, max_id, skip_indexing) ==
    /\ min_id = DefaultMinId
    /\ max_id = DefaultMaxId
    /\ ~is_empty(index, chat_id)

\* The guard of BotFrontend._download_history.
download_rejected(chat_id, min_id, max_id, skip_indexing) ==
    /\ min_id = DefaultMinId
    /\ max_id = DefaultMaxId
    /\ ~is_empty(index, chat_id)
    /\ ~skip_indexing

\* A /download_chat command handled: the chat and the options it carried.
CommandEvent(kind, chat_id, a) ==
    [kind |-> kind, chat_id |-> chat_id, ids |-> {}, args |-> a]

\* /download_chat answered with the "index is not empty" error.
DownloadRejected ==
    \E raw \in RawIds, a \in DownloadArgs :
        LET chat_id == str_to_chat_id(raw)
        IN
        /\ bf.pc = "idle"
        /\ download_rejected(chat_id, arg_min_id(a), arg_max_id(a), a.archive)
        /\ ev' = CommandEvent("download_rejected", chat_id, a)
        /\ calls' = <<>>
        /\ UNCHANGED <<frontvars, cfgvars, monitored_chats, index, dynamo, platform, bf,
                       nops, nbackfills>>

\* /download_chat accepted: BackendBot.download_history up to its loop.
DownloadStart ==
    \E raw \in RawIds, a \in DownloadArgs :
        LET chat_id == str_to_chat_id(raw)
            share_id == get_share_id(chat_id)
        IN
        /\ bf.pc = "idle"
        /\ ~download_rejected(chat_id, arg_min_id(a), arg_max_id(a), a.archive)
        /\ monitored_chats' = monitored_chats \cup {share_id}
        /\ bf' = [pc |-> "iter", chat_id |-> chat_id, share_id |-> share_id,
                  min_id |-> arg_min_id(a), max_id |-> arg_max_id(a),
                  cloud |-> (a.cloud \/ a.archive),
                  skip_indexing |-> a.archive,
                  skip_existing |-> TRUE,
                  cursor |-> arg_max_id(a), msg_list |-> <<>>, cnt |-> 0,
                  edited |-> {}, deleted |-> {}]
        /\ ev' = CommandEvent("download_start", chat_id, a)
        /\ calls' = <<>>
        /\ nbackfills < MaxBackfills
        /\ nbackfills' = nbackfills + 1
        /\ UNCHANGED <<frontvars, cfgvars, index, dynamo, platform, nops>>

\* session.iter_messages(chat_id, min_id, max_id): what is left of the range,
\* newest first.
Remaining ==
    {i \in LiveIds(get_share_id(bf.chat_id)) : bf.min_id <= i /\ i <= bf.cursor}

\* msg_text := self._extract_text(tg_message) and not skip_indexing
\* (the walrus binds the whole conjunction: '' or a bool, shown as str()).
download_msg_text(raw_text, skip_indexing) ==
    IF _extract_text(raw_text) = "" THEN ""
    ELSE IF ~skip_indexing THEN "True" ELSE ""

\* The loop body on the index and the buffer with the document written to
\* the index at once.
download_history_buffer_unbatched(ix, msg_list, msg_text, msg) ==
    [index |-> IF msg_text # "" THEN add_document(ix, msg) ELSE ix,
     msg_list |-> msg_list]

\* The loop body on the index and the buffer: `msg_list.append(msg)`; the
\* index is not written before the loop has ended.
download_history_buffer(ix, msg_list, msg_text, msg) ==
    [index |-> ix,
     msg_list |-> IF msg_text # "" THEN Append(msg_list, msg) ELSE msg_list]

\* call_back of BotFrontend._download_history talks to the platform (reply,
\* edit) when cnt % 500 = 0 and only counts otherwise.
ProgressEvery == 500
call_back_may_raise(cnt) == cnt % ProgressEvery = 0

\* One turn of the loop of download_history: archive, buffer, call back. An
\* exception of the callback (or of the upload) leaves download_history:
\* the loop has no handler, the buffer is dropped with the frame.
DownloadStep ==
    /\ bf.pc = "iter"
    /\ Remaining # {}
    /\ \E cb_raises \in BOOLEAN :
        /\ cb_raises => call_back_may_raise(bf.cnt)
        /\ LET id == CHOOSE i \in Remaining : \A j \in Remaining : j <= i
               tg == platform[id]
               msg_text == download_msg_text(tg.text, bf.skip_indexing)
               url == Url(bf.share_id, id)
               msg == IndexMsg(msg_text, url, bf.chat_id, DateOf(id),
                               SenderOf(id))
               up_raises == bf.cloud /\ cloud_upload_raises(
                                dynamo, RawOf(tg.chat), id, tg.text,
                                bf.skip_existing)
               r == download_history_buffer(index, bf.msg_list, msg_text, msg)
           IN  /\ dynamo' = IF bf.cloud
                            THEN cloud_upload_message(dynamo, RawOf(tg.chat), id,
                                                      tg.text, bf.skip_existing)
                            ELSE dynamo
               /\ index' = IF up_raises THEN index ELSE r.index
               /\ bf' = IF up_raises \/ cb_raises THEN Idle
                        ELSE [bf EXCEPT !.cursor = id - 1,
                                        !.msg_list = r.msg_list,
                                        !.cnt = @ + 1]
               /\ ev' = Event("download_step", bf.chat_id, {id})
               /\ calls' = (IF bf.cloud /\ cloudstorage
                            THEN <<Call("cloud_upload_message", url, 0)>>
                            ELSE <<>>)
                           \o (IF ~up_raises
                               THEN <<Call("call_back", url, bf.cnt)>>
                               ELSE <<>>)
                           \o (IF up_raises
                               THEN <<Call("raise", url, Len(bf.msg_list))>>
                               ELSE <<>>)
                           \o (IF ~up_raises /\ cb_raises
                               THEN <<Call("call_back_raise", url,
                                           Len(r.msg_list))>>
                               ELSE <<>>)
    /\ UNCHANGED <<frontvars, cfgvars, monitored_chats, platform, nops, nbackfills>>

\* session.iter_messages raises while the range is read (a platform read
\* error): the exception leaves download_history, the buffer is dropped.
DownloadFail ==
    /\ bf.pc = "iter"
    /\ bf' = Idle
    /\ ev' = Event("download_failed", bf.chat_id, {})
    /\ calls' = <<Call("iter_messages_raise", Url(bf.share_id, 0),
                        Len(bf.msg_list))>>
    /\ UNCHANGED <<frontvars, cfgvars, monitored_chats, index, dynamo, platform, nops,
                   nbackfills>>

RECURSIVE add_documents(_, _)
add_documents(ix, msg_list) ==
    IF msg_list = <<>> THEN ix
    ELSE add_documents(add_document(ix, Head(msg_list)), Tail(msg_list))

\* The range is exhausted: the buffered documents are written and committed.
DownloadCommit ==
    /\ bf.pc = "iter"
    /\ Remaining = {}
    /\ index' = add_documents(index, bf.msg_list)
    /\ bf' = Idle
    /\ ev' = Event("download_commit", bf.chat_id, {})
    /\ calls' = [k \in DOMAIN bf.msg_list |->
                    Call("add", bf.msg_list[k].url, 1)]
    /\ UNCHANGED <<frontvars, cfgvars, monitored_chats, dynamo, platform, nops, nbackfills>>

Step ==
    \/ NewMessage
    \/ EditMessage
    \/ DeleteMessages
    \/ MonitorChat
    \/ Clear
    \/ ClearAll
    \/ DownloadRejected
    \/ DownloadStart
    \/ DownloadStep
    \/ DownloadFail
    \/ DownloadCommit

Next == Step

Spec == Init /\ [][Next]_vars

\* ------------------------------------------- the Archival Sink on its own
\* The records a caller hands to put_item_to_dynamo.
SinkItems ==
    {TelegramMessage(c, i, t, ts) :
        c \in Chats, i \in 1..MaxMsgId, t \in {"<", " b"}, ts \in Timestamps}

SinkInit ==
    /\ monitor_all = FALSE
    /\ cloudstorage = TRUE
    /\ excluded_chats = {}
    /\ index = EmptyBag
    /\ monitored_chats = {}
    /\ platform = <<>>
    /\ dynamo = {}
    /\ bf = Idle
    /\ nops = 0
    /\ nbackfills = 0
    /\ ev = NoEvent
    /\ calls = <<>>
    /\ FrontIdle

\* await client.put_item_to_dynamo(item=...)
PutRecord ==
    \E item \in SinkItems :
        LET r == put_item_to_dynamo(dynamo, item) IN
        /\ dynamo' = r.table
        /\ ev' = Event("put_record", item.chatId, {item.messageId})
        /\ calls' = <<Call("put_item", Url(item.chatId, item.messageId),
                           IF r.raised THEN 0 ELSE 1)>>
        /\ UNCHANGED <<frontvars, cfgvars, monitored_chats, index, platform, bf, nops,
                       nbackfills>>

SinkNext == PutRecord

SinkSpec == SinkInit /\ [][SinkNext]_vars

\* --------------------------------------------------------------- front end
\* Messages the bot's chats hold.
MaxBotMsgs == 4
\* Callback queries and losses of the store in one behaviour.
MaxFrontOps == 2

\* Texts are sequences of words and single spaces; strings of digits and
\* button payloads are sequences of characters and words.
Digits == <<"0", "1", "2", "3", "4", "5", "6", "7", "8", "9">>

\* str(n)
RECURSIVE IntToStr(_)
IntToStr(n) ==
    IF n < 0 THEN <<"-">> \o IntToStr(0 - n)
    ELSE IF n < 10 THEN <<Digits[n + 1]>>
    ELSE IntToStr(n \div 10) \o <<Digits[(n % 10) + 1]>>

RECURSIVE StrToNat(_)
StrToNat(str) ==
    IF str = <<>> THEN 0
    ELSE StrToNat(SubSeq(str, 1, Len(str) - 1)) * 10
         + (CHOOSE d \in 0..9 : Digits[d + 1] = str[Len(str)])

\* int(s)
StrToInt(str) ==
    IF str # <<>> /\ str[1] = "-" THEN 0 - StrToNat(Tail(str))
    ELSE StrToNat(str)

\* s.split(sep)
RECURSIVE split(_, _)
split(str, sep) ==
    LET at == {k \in DOMAIN str : str[k] = sep} IN
    IF at = {} THEN <<str>>
    ELSE LET k == CHOOSE x \in at : \A y \in at : x <= y
         IN <<SubSeq(str, 1, k - 1)>> \o split(SubSeq(str, k + 1, Len(str)), sep)

\* ','.join(map(str, chats))
RECURSIVE join_chats(_)
join_chats(chats) ==
    IF chats = <<>> THEN <<>>
    ELSE IF Len(chats) = 1 THEN IntToStr(chats[1])
    ELSE IntToStr(chats[1]) \o <<",">> \o join_chats(Tail(chats))

\* [int(chat_id) for chat_id in chats.split(',')]
parse_chats(str) ==
    LET parts == split(str, ",") IN [k \in DOMAIN parts |-> StrToInt(parts[k])]

\* Values of the store: Python ints and strs, and None.
IntVal(n) == [t |-> "int", v |-> n]
StrVal(str) == [t |-> "str", v |-> str]
None == [t |-> "none"]
\* bool(x)
truthy(x) ==
    CASE x.t = "none" -> FALSE
      [] x.t = "int" -> x.v # 0
      [] OTHER -> x.v # <<>>
\* int(x)
to_int(x) == IF x.t = "int" THEN x.v ELSE StrToInt(x.v)

\* FakeRedis.get / Redis.get
redis_get(store, key) == IF key \in DOMAIN store THEN store[key] ELSE None

\* FakeRedis.set keeps the object; Redis.set with decode_responses=True
\* gives the value back as a str.
redis_set(store, key, val) ==
    LET kept == IF fcfg.no_redis \/ val.t = "str" THEN val
                ELSE StrVal(IntToStr(val.v))
    IN [k \in DOMAIN store \cup {key} |-> IF k = key THEN kept ELSE store[k]]

\* f'{self.id}:query_text:{chat_id}:{msg_id}' and the like
Key(name, chat_id, msg_id) == <<name, chat_id, msg_id>>

\* The chat scope None.
NoScope == <<>>

\* SearchResult.is_last_page: no hit lies beyond the page.
is_last_page(total_results, page_len, page_num) ==
    page_num * page_len >= total_results

\* Indexer.search: the documents whose content is a word of the query, in
\* the chats of the scope; the page count is over the matching documents.
search(ix, q, in_chats, page_len, page_num) ==
    LET hit(r) == /\ \E k \in DOMAIN q : q[k] = r.content
                  /\ in_chats = NoScope
                        \/ \E k \in DOMAIN in_chats : in_chats[k] = r.chat_id
        total == SumCopies({r \in BagToSet(ix) : hit(r)}, ix)
    IN  [total_results |-> total,
         is_last_page |-> is_last_page(total, page_len, page_num)]

\* Button.inline(text, data): the payload f'search_page={n}'
page_request(n) == <<"search_page", "=">> \o IntToStr(n)
\* f'select_chat={chat_id}'
chat_selection(chat_id) == <<"select_chat", "=">> \o IntToStr(chat_id)

\* BotFrontend._render_respond_buttons with floor in place of the ceiling.
_render_respond_buttons_floor(result, cur_page_num, page_len) ==
    [former_page |-> IF cur_page_num = 1 THEN <<>>
                     ELSE page_request(cur_page_num - 1),
     next_page |-> IF result.is_last_page THEN <<>>
                   ELSE page_request(cur_page_num + 1),
     cur_page_num |-> cur_page_num,
     total_pages |-> result.total_results \div page_len]

\* BotFrontend._render_respond_buttons: the payloads of the previous and the
\* next control ('' when disabled) and the label f'{cur} / {total_pages}'.
_render_respond_buttons(result, cur_page_num, page_len) ==
    [former_page |-> IF cur_page_num = 1 THEN <<>>
                     ELSE page_request(cur_page_num - 1),
     next_page |-> IF result.is_last_page THEN <<>>
                   ELSE page_request(cur_page_num + 1),
     cur_page_num |-> cur_page_num,
     total_pages |-> 0 - ((0 - result.total_results) \div page_len)]

\* The payloads of the controls of a rendered strip.
StripButtons(row) == <<row.former_page, <<>>, row.next_page>>

\* A message of a bot chat. asked and selected record, for a result or a
\* prompt, the query and scope it was first rendered for and the chat
\* selected on it.
UserMsg(text, reply_to) ==
    [from |-> "user", text |-> text, reply_to |-> reply_to,
     body |-> [kind |-> "none", total_results |-> 0, page_num |-> 0],
     buttons |-> <<>>, asked |-> [q |-> <<>>, chats |-> NoScope],
     selected |-> 0]
BotMsg(kind, total_results, page_num, buttons, q, chats) ==
    [from |-> "bot", text |-> <<>>, reply_to |-> 0,
     body |-> [kind |-> kind, total_results |-> total_results,
               page_num |-> page_num],
     buttons |-> buttons, asked |-> [q |-> q, chats |-> chats],
     selected |-> 0]

\* A search issued.
SearchCall(q, in_chats, page_len, page_num) ==
    [op |-> "search", q |-> q, in_chats |-> in_chats, page_len |-> page_len,
     page_num |-> page_num]

\* Words that start with '/' or '@'.
CommandWords ==
    {"/search", "/chats", "/monitor_chat", "/clear", "/download_chat"}
\* Raw texts users send: two queries, a query after the command, the command
\* alone, and the listing of chats.
FrontTexts ==
    {<<"a">>, <<"b">>, <<"/search", " ", "a">>, <<"/search">>, <<"/chats">>}

\* str.strip() on a text
RECURSIVE strip_text(_)
strip_text(text) ==
    IF text = <<>> THEN text
    ELSE IF text[1] = " " THEN strip_text(Tail(text))
    ELSE IF text[Len(text)] = " "
         THEN strip_text(SubSeq(text, 1, Len(text) - 1))
    ELSE text

\* The monitored chats in the order the prompt lists them.
RECURSIVE SortedSeq(_)
SortedSeq(S) ==
    IF S = {} THEN <<>>
    ELSE LET m == CHOOSE x \in S : \A y \in S : x <= y
         IN <<m>> \o SortedSeq(S \ {m})

\* The outcome of a handler: the store, the messages the bot sent, the
\* searches issued and the exception that escaped ("" for none).
Handled(store, out, issued, raised) ==
    [redis |-> store, out |-> out, calls |-> issued, raised |-> raised]

\* BotFrontend._query_selected_chat reading the entry of the message itself.
_query_selected_chat_own_id(store, chat_id, msg_id, reply_to) ==
    LET redis_query_result ==
            redis_get(store, Key("select_chat", chat_id, msg_id))
    IN  IF reply_to # 0 /\ truthy(redis_query_result)
        THEN <<to_int(redis_query_result)>>
        ELSE NoScope

\* BotFrontend._query_selected_chat: the chat selected on the message the
\* event replies to, or None. msg_id is the id of the event's own message.
_query_selected_chat(store, chat_id, msg_id, reply_to) ==
    LET redis_query_result ==
            redis_get(store, Key("select_chat", chat_id, reply_to))
    IN  IF reply_to # 0 /\ truthy(redis_query_result)
        THEN <<to_int(redis_query_result)>>
        ELSE NoScope

\* BotFrontend._search for the message msg_id of chat_id; the response, if
\* one is sent, gets the id msg_id + 1.
_search(store, chat_id, msg_id, raw_text, reply_to) ==
    IF is_empty_all(index)
    THEN Handled(store, <<BotMsg("index_empty", 0, 0, <<>>, <<>>, NoScope)>>,
                 <<>>, "")
    ELSE LET sp == {k \in DOMAIN raw_text : raw_text[k] = " "}
             first_space == IF sp = {} THEN Len(raw_text) + 1
                            ELSE CHOOSE x \in sp : \A y \in sp : x <= y
             q == IF raw_text # <<>> /\ raw_text[1] \in CommandWords
                  THEN SubSeq(raw_text, first_space + 1, Len(raw_text))
                  ELSE raw_text
         IN
         IF Len(q) = 0 THEN Handled(store, <<>>, <<>>, "")
         ELSE LET chats == _query_selected_chat(store, chat_id, msg_id, reply_to)
                  result == search(index, q, chats, fcfg.page_len, 1)
                  buttons == _render_respond_buttons(result, 1, fcfg.page_len)
                  id == msg_id + 1
                  s1 == redis_set(store, Key("query_text", chat_id, id), StrVal(q))
                  s2 == IF chats # NoScope
                        THEN redis_set(s1, Key("query_chats", chat_id, id),
                                       StrVal(join_chats(chats)))
                        ELSE s1
              IN Handled(s2,
                         <<BotMsg("result", result.total_results, 1,
                                  StripButtons(buttons), q, chats)>>,
                         <<SearchCall(q, chats, fcfg.page_len, 1)>>, "")

\* BotFrontend._normal_msg_handler
_normal_msg_handler(store, chat_id, msg_id, raw_text, reply_to) ==
    LET text == strip_text(raw_text) IN
    IF text = <<>> THEN Handled(store, <<>>, <<>>, "")
    ELSE IF text[1] = "/chats"
    THEN IF monitored_chats # {}
         THEN LET listed == SortedSeq(monitored_chats) IN
              Handled(store,
                      <<BotMsg("prompt", 0, 0,
                               [k \in DOMAIN listed |-> chat_selection(listed[k])],
                               <<>>, NoScope)>>,
                      <<>>, "")
         ELSE Handled(store, <<BotMsg("no_chats", 0, 0, <<>>, <<>>, NoScope)>>,
                      <<>>, "")
    ELSE IF text[1] = "/search"
    THEN _search(store, chat_id, msg_id, raw_text, reply_to)
    ELSE IF text[1] \in CommandWords
    THEN Handled(store, <<BotMsg("unknown_command", 0, 0, <<>>, <<>>, NoScope)>>,
                 <<>>, "")
    ELSE _search(store, chat_id, msg_id, raw_text, reply_to)

\* The outcome of a callback: the store, the messages of the chat, the
\* searches issued and the exception that escaped.
Answered(store, msgs, issued, raised) ==
    [redis |-> store, msgs |-> msgs, calls |-> issued, raised |-> raised]

\* event.edit(response, buttons=buttons)
edit(msgs, id, kind, total_results, page_num, buttons) ==
    [msgs EXCEPT ![id] =
        [@ EXCEPT !.body = [kind |-> kind, total_results |-> total_results,
                            page_num |-> page_num],
                  !.buttons = buttons]]

\* BotFrontend._callback_handler without the lookup of the recorded scope.
_callback_handler_unscoped(store, msgs, chat_id, message_id, payload) ==
    LET data == split(payload, "=") IN
    IF strip_text(payload) = <<>> THEN Answered(store, msgs, <<>>, "")
    ELSE IF data[1] = <<"search_page">>
    THEN LET page_num == StrToInt(data[2])
             q == redis_get(store, Key("query_text", chat_id, message_id))
         IN  IF truthy(q)
             THEN LET result == search(index, q.v, NoScope, fcfg.page_len, page_num)
                      buttons == _render_respond_buttons(result, page_num,
                                                         fcfg.page_len)
                  IN Answered(store,
                              edit(msgs, message_id, "result",
                                   result.total_results, page_num,
                                   StripButtons(buttons)),
                              <<SearchCall(q.v, NoScope, fcfg.page_len, page_num)>>,
                              "")
             ELSE Answered(store, msgs, <<>>, "")
    ELSE IF data[1] = <<"select_chat">>
    THEN LET chat == StrToInt(data[2]) IN
         Answered(redis_set(store, Key("select_chat", chat_id, message_id),
                            IntVal(chat)),
                  edit(msgs, message_id, "selected", 0, 0,
                       msgs[message_id].buttons),
                  <<>>, "")
    ELSE Answered(store, msgs, <<>>, "RuntimeError")

\* BotFrontend._callback_handler without the test of the recorded query.
_callback_handler_unguarded(store, msgs, chat_id, message_id, payload) ==
    LET data == split(payload, "=") IN
    IF strip_text(payload) = <<>> THEN Answered(store, msgs, <<>>, "")
    ELSE IF data[1] = <<"search_page">>
    THEN LET page_num == StrToInt(data[2])
             q == redis_get(store, Key("query_text", chat_id, message_id))
             chats0 == redis_get(store, Key("query_chats", chat_id, message_id))
             chats == IF truthy(chats0) THEN parse_chats(chats0.v) ELSE NoScope
             text == IF truthy(q) THEN q.v ELSE <<>>
             result == search(index, text, chats, fcfg.page_len, page_num)
             buttons == _render_respond_buttons(result, page_num, fcfg.page_len)
         IN  Answered(store,
                      edit(msgs, message_id, "result", result.total_results,
                           page_num, StripButtons(buttons)),
                      <<SearchCall(text, chats, fcfg.page_len, page_num)>>, "")
    ELSE IF data[1] = <<"select_chat">>
    THEN LET chat == StrToInt(data[2]) IN
         Answered(redis_set(store, Key("select_chat", chat_id, message_id),
                            IntVal(chat)),
                  edit(msgs, message_id, "selected", 0, 0,
                       msgs[message_id].buttons),
                  <<>>, "")
    ELSE Answered(store, msgs, <<>>, "RuntimeError")

\* BotFrontend._callback_handler with an unknown payload answered silently.
_callback_handler_ignores_unknown(store, msgs, chat_id, message_id, payload) ==
    LET data == split(payload, "=") IN
    IF strip_text(payload) = <<>> THEN Answered(store, msgs, <<>>, "")
    ELSE IF data[1] = <<"search_page">>
    THEN LET page_num == StrToInt(data[2])
             q == redis_get(store, Key("query_text", chat_id, message_id))
             chats0 == redis_get(store, Key("query_chats", chat_id, message_id))
             chats == IF truthy(chats0) THEN parse_chats(chats0.v) ELSE NoScope
         IN  IF truthy(q)
             THEN LET result == search(index, q.v, chats, fcfg.page_len, page_num)
                      buttons == _render_respond_buttons(result, page_num,
                                                         fcfg.page_len)
                  IN Answered(store,
                              edit(msgs, message_id, "result",
                                   result.total_results, page_num,
                                   StripButtons(buttons)),
                              <<SearchCall(q.v, chats, fcfg.page_len, page_num)>>,
                              "")
             ELSE Answered(store, msgs, <<>>, "")
    ELSE IF data[1] = <<"select_chat">>
    THEN LET chat == StrToInt(data[2]) IN
         Answered(redis_set(store, Key("select_chat", chat_id, message_id),
                            IntVal(chat)),
                  edit(msgs, message_id, "selected", 0, 0,
                       msgs[message_id].buttons),
                  <<>>, "")
    ELSE Answered(store, msgs, <<>>, "")

\* BotFrontend._callback_handler for the payload of the control pressed on
\* message_id of chat_id, whose messages are msgs.
_callback_handler(store, msgs, chat_id, message_id, payload) ==
    LET data == split(payload, "=") IN
    IF strip_text(payload) = <<>> THEN Answered(store, msgs, <<>>, "")
    ELSE IF data[1] = <<"search_page">>
    THEN LET page_num == StrToInt(data[2])
             q == redis_get(store, Key("query_text", chat_id, message_id))
             chats0 == redis_get(store, Key("query_chats", chat_id, message_id))
             chats == IF truthy(chats0) THEN parse_chats(chats0.v) ELSE NoScope
         IN  IF truthy(q)
             THEN LET result == search(index, q.v, chats, fcfg.page_len, page_num)
                      buttons == _render_respond_buttons(result, page_num,
                                                         fcfg.page_len)
                  IN Answered(store,
                              edit(msgs, message_id, "result",
                                   result.total_results, page_num,
                                   StripButtons(buttons)),
                              <<SearchCall(q.v, chats, fcfg.page_len, page_num)>>,
                              "")
             ELSE Answered(store, msgs, <<>>, "")
    ELSE IF data[1] = <<"select_chat">>
    THEN LET chat == StrToInt(data[2]) IN
         Answered(redis_set(store, Key("select_chat", chat_id, message_id),
                            IntVal(chat)),
                  edit(msgs, message_id, "selected", 0, 0,
                       msgs[message_id].buttons),
                  <<>>, "")
    ELSE Answered(store, msgs, <<>>, "RuntimeError")

\* The event of a callback query.
CallbackEvent(chat_id, message_id, payload) ==
    [kind |-> "callback", chat_id |-> chat_id, ids |-> {message_id},
     data |-> payload]
\* The event of a message to the bot.
MessageEvent(chat_id, msg_id, raw_text, reply_to) ==
    [kind |-> "message", chat_id |-> chat_id, ids |-> {msg_id},
     text |-> raw_text, reply_to |-> reply_to]

backvars ==
    <<monitor_all, cloudstorage, excluded_chats, monitored_chats, index,
      dynamo, platform, bf, nops, nbackfills>>

\* The number of messages of the chats S.
RECURSIVE SentIn(_, _)
SentIn(msgs, S) ==
    IF S = {} THEN 0
    ELSE LET c == CHOOSE x \in S : TRUE
         IN Len(msgs[c]) + SentIn(msgs, S \ {c})

\* A user sends raw_text to the bot in chat c, as a reply to the message
\* reply_to of the chat (0: not a reply).
UserMessage ==
    \E c \in BotChats, raw_text \in FrontTexts :
    \E reply_to \in 0..Len(bot_msgs[c]) :
        /\ SentIn(bot_msgs, BotChats) + 2 <= MaxBotMsgs
        /\ LET msg_id == Len(bot_msgs[c]) + 1
               r == _normal_msg_handler(redis, c, msg_id, raw_text, reply_to)
           IN  /\ bot_msgs' = [bot_msgs EXCEPT
                      ![c] = @ \o <<UserMsg(raw_text, reply_to)>> \o r.out]
               /\ redis' = r.redis
               /\ calls' = r.calls
               /\ ev' = MessageEvent(c, msg_id, raw_text, reply_to)
        /\ UNCHANGED <<backvars, fcfg, nfront, rendered>>

\* An exception that left the handler.
Raised(class) == [op |-> "raise", error |-> class]

\* Payloads a client may send that no control was created with: the text of
\* the page label (the payload of a control created with empty data, when
\* the library substitutes the text) and a kind the handler does not know.
OtherPayloads == {<<"1", " ", "/", " ", "1">>, <<"delete", "=", "1">>}

\* The payloads a callback query on the message m may carry.
Payloads(m) ==
    IF m.buttons = <<>> THEN {}
    ELSE {m.buttons[k] : k \in DOMAIN m.buttons} \cup OtherPayloads

\* A user presses a control of the bot's message id in chat c, or a client
\* sends a callback query for it with a payload of its own.
PressButton ==
    \E c \in BotChats :
    \E id \in DOMAIN bot_msgs[c] :
    \E payload \in Payloads(bot_msgs[c][id]) :
        /\ nfront < MaxFrontOps
        /\ nfront' = nfront + 1
        /\ LET r == _callback_handler(redis, bot_msgs[c], c, id, payload)
               picks == payload # <<>> /\ payload[1] = "select_chat"
               msgs == IF picks
                       THEN [r.msgs EXCEPT ![id].selected =
                               CHOOSE x \in Chats : chat_selection(x) = payload]
                       ELSE r.msgs
           IN  /\ bot_msgs' = [bot_msgs EXCEPT ![c] = msgs]
               /\ redis' = r.redis
               /\ calls' = IF r.raised # ""
                           THEN r.calls \o <<Raised(r.raised)>> ELSE r.calls
               /\ ev' = CallbackEvent(c, id, payload)
        /\ UNCHANGED <<backvars, fcfg, rendered>>

\* The store loses its entries: FakeRedis starts empty with the process,
\* a Redis server may be flushed.
StoreLost ==
    /\ nfront < MaxFrontOps
    /\ nfront' = nfront + 1
    /\ redis # EmptyStore
    /\ redis' = EmptyStore
    /\ ev' = Event("store_lost", NoChat, {})
    /\ calls' = <<>>
    /\ UNCHANGED <<backvars, fcfg, bot_msgs, rendered>>

\* The documents the front end searches: two of chat 1 and one of chat 2
\* hold "a", one of chat 2 holds "b".
FrontIndex ==
    SetToBag({IndexMsg("a", Url(1, 1), 1, DateOf(1), SenderOf(1)),
              IndexMsg("a", Url(1, 2), 1, DateOf(2), SenderOf(2)),
              IndexMsg("a", Url(2, 1), 2, DateOf(1), SenderOf(1)),
              IndexMsg("b", Url(2, 2), 2, DateOf(2), SenderOf(2))})
PageLens == {1, 2}

FrontInit ==
    /\ monitor_all = FALSE
    /\ cloudstorage = FALSE
    /\ excluded_chats = {}
    /\ nops = 0
    /\ nbackfills = 0
    /\ index \in {EmptyBag, FrontIndex}
    /\ monitored_chats = list_indexed_chats(index)
    /\ platform = <<>>
    /\ dynamo = {}
    /\ bf = Idle
    /\ ev = NoEvent
    /\ calls = <<>>
    /\ fcfg \in [no_redis : BOOLEAN, page_len : PageLens]
    /\ redis = EmptyStore
    /\ bot_msgs = [c \in BotChats |-> <<>>]
    /\ nfront = 0
    /\ rendered = NoRender

FrontNext ==
    \/ UserMessage
    \/ PressButton
    \/ StoreLost

FrontSpec == FrontInit /\ [][FrontNext]_vars

\* ------------------------------------------ the gateway being unavailable
\* self._admin: the chat of the admin with the bot.
AdminChat == 10

\* backend.search raised: the class of the exception.
SearchFailed(class) == [op |-> "search_failed", error |-> class]

\* bot_message_handler around a handler in which backend.search raised the
\* exception of class error: the reply sent and what leaves the handler.
\* An ordinary user's LockError is answered with the try-again text; any
\* other case is answered with an error report and raised again.
bot_message_handler(chat_id, error) ==
    IF chat_id # AdminChat
    THEN IF error = "LockError"
         THEN [out |-> <<BotMsg("try_again", 0, 0, <<>>, <<>>, NoScope)>>,
               calls |-> <<>>]
         ELSE [out |-> <<BotMsg("error_contact_admin", 0, 0, <<>>, <<>>,
                                NoScope)>>,
               calls |-> <<Raised(error)>>]
    ELSE [out |-> <<BotMsg("error_traceback", 0, 0, <<>>, <<>>, NoScope)>>,
          calls |-> <<Raised(error)>>]

\* callback_query_handler around _callback_handler in which backend.search
\* raised: no handler, the exception leaves, nothing is sent or answered.
callback_query_handler(chat_id, error) ==
    [out |-> <<>>, calls |-> <<Raised(error)>>]

\* A user sends a query and the gateway rejects the search: the index is
\* being written (whoosh.index.LockError).
QueryUnavailable ==
    \E c \in BotChats, raw_text \in FrontTexts :
    \E reply_to \in 0..Len(bot_msgs[c]) :
        /\ SentIn(bot_msgs, BotChats) + 2 <= MaxBotMsgs
        /\ nfront < MaxFrontOps
        /\ nfront' = nfront + 1
        /\ LET msg_id == Len(bot_msgs[c]) + 1
               r == _normal_msg_handler(redis, c, msg_id, raw_text, reply_to)
               h == bot_message_handler(c, "LockError")
           IN  /\ r.calls # <<>>
               /\ bot_msgs' = [bot_msgs EXCEPT
                      ![c] = @ \o <<UserMsg(raw_text, reply_to)>> \o h.out]
               /\ calls' = r.calls \o <<SearchFailed("LockError")>> \o h.calls
               /\ ev' = MessageEvent(c, msg_id, raw_text, reply_to)
        /\ UNCHANGED <<backvars, fcfg, redis, rendered>>

\* A user presses a page control and the gateway rejects the search.
PressUnavailable ==
    \E c \in BotChats :
    \E id \in DOMAIN bot_msgs[c] :
    \E payload \in Payloads(bot_msgs[c][id]) :
        /\ nfront < MaxFrontOps
        /\ nfront' = nfront + 1
        /\ LET r == _callback_handler(redis, bot_msgs[c], c, id, payload)
               h == callback_query_handler(c, "LockError")
           IN  /\ r.calls # <<>>
               /\ r.raised = ""
               /\ bot_msgs' = [bot_msgs EXCEPT ![c] = @ \o h.out]
               /\ calls' = r.calls \o <<SearchFailed("LockError")>> \o h.calls
               /\ ev' = CallbackEvent(c, id, payload)
        /\ UNCHANGED <<backvars, fcfg, redis, rendered>>

UnavailableNext ==
    \/ UserMessage
    \/ PressButton
    \/ StoreLost
    \/ QueryUnavailable
    \/ PressUnavailable

UnavailableSpec == FrontInit /\ [][UnavailableNext]_vars

\* ------------------------------------------------------- the action strip
\* Inputs of _render_respond_buttons.
MaxResults == 25
MaxPageLen == 10
MaxPage == 3

\* _render_respond_buttons applied to a result of total_results hits, with
\* the flag the gateway reported, for the page n under page_len.
Render ==
    \E total_results \in 0..MaxResults, page_len \in 1..MaxPageLen,
       n \in 1..MaxPage, last \in BOOLEAN :
        /\ rendered' =
             [total_results |-> total_results, is_last_page |-> last,
              page_len |-> page_len, cur_page_num |-> n,
              buttons |-> _render_respond_buttons(
                              [total_results |-> total_results,
                               is_last_page |-> last], n, page_len)]
        /\ UNCHANGED <<backvars, ev, calls, fcfg, redis, bot_msgs, nfront>>

\* The bot at rest, nothing rendered yet.
ButtonsInit ==
    /\ monitor_all = FALSE
    /\ cloudstorage = FALSE
    /\ excluded_chats = {}
    /\ nops = 0
    /\ nbackfills = 0
    /\ index = EmptyBag
    /\ monitored_chats = list_indexed_chats(index)
    /\ platform = <<>>
    /\ dynamo = {}
    /\ bf = Idle
    /\ ev = NoEvent
    /\ calls = <<>>
    /\ FrontIdle

ButtonsNext == Render

ButtonsSpec == ButtonsInit /\ [][ButtonsNext]_vars

\* ------------------------------------------------- who may use the bot
\* sender.id of the users who write to the bot: the admin (whose private
\* chat with the bot is AdminChat), a user a whitelist may hold, a user on
\* no whitelist.
Senders == {10, 12, 13}
\* event.chat_id of the bot chats: the admin's private chat, and a
\* supergroup (share id 11) in which every user writes.
EventChatId(c) == IF c = AdminChat THEN c ELSE (0 - c) - 100
SendersIn(c) == IF c = AdminChat THEN {AdminChat} ELSE Senders
\* BotFrontendConfig.private_whitelist: the configured users and chats,
\* with the admin added.
Whitelists == {{10}, {10, 12}}

\* Raw texts sent to the bot: a query, the listing of chats, and the
\* admin's commands on chat 1.
GateTexts ==
    {<<"a">>, <<"/chats">>,
     <<"/monitor_chat", " ", "1">>,
     <<"/clear", " ", "1">>,
     <<"/download_chat", " ", "1">>,
     <<"/download_chat", " ", "--archive", " ", "1">>}

\* A notice of the bot: a reply with no result and no control.
Notice(kind) == BotMsg(kind, 0, 0, <<>>, <<>>, NoScope)

\* What a message handler did: the outcome on the front end, and the
\* monitored set and the index it left.
Done(h, monitored, ix) ==
    [redis |-> h.redis, out |-> h.out, calls |-> h.calls, raised |-> h.raised,
     monitored_chats |-> monitored, index |-> ix]

\* parse_args(shlex.split(text)[1:]): the option --archive and the
\* positional chats.
IsChatArg(w) == w # " " /\ w # "--archive"
args_chats(text) == SelectSeq(Tail(text), IsChatArg)
args_archive(text) == \E k \in DOMAIN text : text[k] = "--archive"

\* BotFrontend._chat_ids_from_args (a chat is typed as one digit)
_chat_ids_from_args(chats) ==
    [k \in DOMAIN chats |-> str_to_chat_id(StrToInt(<<chats[k]>>))]

\* BackendBot.download_history run to its end: the buffer after the loop
\* over the messages ids, newest first.
RECURSIVE download_history_msg_list(_, _, _)
download_history_msg_list(chat_id, ids, skip_indexing) ==
    IF ids = {} THEN <<>>
    ELSE LET id == CHOOSE i \in ids : \A j \in ids : j <= i
             msg_text == download_msg_text(platform[id].text, skip_indexing)
             msg == IndexMsg(msg_text, Url(get_share_id(chat_id), id), chat_id,
                             DateOf(id), SenderOf(id))
             rest == download_history_msg_list(chat_id, ids \ {id},
                                               skip_indexing)
         IN  download_history_buffer(index, <<>>, msg_text, msg).msg_list
             \o rest

\* BotFrontend._download_history for one chat, with no failure of the
\* platform: refused over a non-empty index, else the chat is monitored,
\* its messages are archived (cloud) and their records committed.
_download_history(h, chat_id, min_id, max_id, cloud, skip_indexing) ==
    IF download_rejected(chat_id, min_id, max_id, skip_indexing)
    THEN Done([h EXCEPT !.out = <<Notice("index_not_empty")>>],
              monitored_chats, index)
    ELSE LET share_id == get_share_id(chat_id)
             ids == {i \in LiveIds(share_id) : min_id <= i /\ i <= max_id}
             fetched == SortedSeq(ids)
             msg_list == download_history_msg_list(chat_id, ids, skip_indexing)
             uploads == IF cloud /\ cloudstorage
                        THEN [k \in DOMAIN fetched |->
                                Call("cloud_upload_message",
                                     Url(share_id, fetched[k]), 0)]
                        ELSE <<>>
             adds == [k \in DOMAIN msg_list |-> Call("add", msg_list[k].url, 1)]
         IN  Done([h EXCEPT !.out = <<Notice("download_done")>>,
                            !.calls = uploads \o adds],
                  monitored_chats \cup {share_id},
                  add_documents(index, msg_list))

\* BotFrontend._admin_msg_handler for the commands /download_chat,
\* /monitor_chat and /clear; every other text goes to _normal_msg_handler.
_admin_msg_handler(store, chat_id, msg_id, raw_text, reply_to) ==
    LET text == strip_text(raw_text)
        h == Handled(store, <<>>, <<>>, "")
        selected == _query_selected_chat(store, chat_id, msg_id, reply_to)
        named == IF text = <<>> THEN <<>> ELSE args_chats(text)
        chat_ids == IF named # <<>> /\ named # <<"all">>
                    THEN _chat_ids_from_args(named) ELSE selected
    IN
    IF text # <<>> /\ text[1] = "/download_chat"
    THEN IF chat_ids = <<>>
         THEN Done([h EXCEPT !.out = <<Notice("no_chat_given")>>],
                   monitored_chats, index)
         ELSE _download_history(h, chat_ids[1], DefaultMinId, DefaultMaxId,
                                args_archive(text), args_archive(text))
    ELSE IF text # <<>> /\ text[1] = "/monitor_chat"
    THEN IF chat_ids = <<>>
         THEN Done([h EXCEPT !.out = <<Notice("no_chat_given")>>],
                   monitored_chats, index)
         ELSE Done([h EXCEPT !.out = [k \in DOMAIN chat_ids |->
                                         Notice("monitored")]],
                   monitored_chats \cup {chat_ids[k] : k \in DOMAIN chat_ids},
                   index)
    ELSE IF text # <<>> /\ text[1] = "/clear"
    THEN IF named = <<>> /\ selected = NoScope
         THEN Done([h EXCEPT !.out = <<Notice("clear_usage")>>],
                   monitored_chats, index)
         ELSE IF named = <<"all">>
         THEN Done([h EXCEPT !.out = <<Notice("cleared_all")>>], {}, EmptyBag)
         ELSE Done([h EXCEPT
                       !.out = IF clear_raises(monitored_chats, chat_ids)
                               THEN <<>>
                               ELSE [k \in DOMAIN chat_ids |->
                                        Notice("cleared")],
                       !.calls = [k \in DOMAIN chat_ids |->
                                     Call("delete_by_term",
                                          Url(chat_ids[k], 0), 0)],
                       !.raised = IF clear_raises(monitored_chats, chat_ids)
                                  THEN "KeyError" ELSE ""],
                   clear_monitored(monitored_chats, chat_ids),
                   clear_index(index, chat_ids))
    ELSE Done(_normal_msg_handler(store, chat_id, msg_id, raw_text, reply_to),
              monitored_chats, index)

\* event.is_channel: the chat is a channel or a supergroup.
is_channel(chat_id) == chat_id < 0

\* The private-mode test of bot_message_handler.
private_refused(sender_id, chat_id) ==
    /\ fcfg.private_mode
    /\ sender_id \notin fcfg.private_whitelist
    /\ get_share_id(chat_id) \notin fcfg.private_whitelist

\* bot_message_handler with every message handed to _admin_msg_handler.
bot_message_dispatch_all_admin(store, sender_id, chat_id, id, text, to, addressed) ==
    _admin_msg_handler(store, chat_id, id, text, to)

\* bot_message_handler: a message of a channel that does not address the
\* bot is ignored, a user outside the whitelist is refused in private mode,
\* the admin chat is served by _admin_msg_handler, every other chat by
\* _normal_msg_handler. addressed: the message mentions the bot or holds
\* its @username.
bot_message_dispatch(store, sender_id, chat_id, id, text, to, addressed) ==
    LET h == Handled(store, <<>>, <<>>, "") IN
    IF is_channel(chat_id) /\ ~addressed
    THEN Done(h, monitored_chats, index)
    ELSE IF private_refused(sender_id, chat_id)
    THEN Done([h EXCEPT !.out = <<Notice("refused")>>], monitored_chats, index)
    ELSE IF chat_id # AdminChat
    THEN Done(_normal_msg_handler(store, chat_id, id, text, to),
              monitored_chats, index)
    ELSE LET r == _admin_msg_handler(store, chat_id, id, text, to)
         IN  IF r.raised = "" THEN r
             ELSE [r EXCEPT !.out = @ \o <<Notice("error_traceback")>>]

\* The event of a message or a callback query with its sender.
SentBy(kind, sender_id, chat_id, id, text, addressed) ==
    [kind |-> kind, sender |-> sender_id, chat_id |-> chat_id, ids |-> {id},
     text |-> text, addressed |-> addressed]

gatefixed ==
    <<monitor_all, cloudstorage, excluded_chats, dynamo, platform, bf, nops,
      nbackfills, fcfg, rendered>>

\* The user sender_id sends raw_text to the bot in chat c.
GateMessage ==
    \E c \in BotChats, raw_text \in GateTexts :
    \E sender_id \in SendersIn(c), reply_to \in 0..Len(bot_msgs[c]) :
    \E addressed \in IF is_channel(EventChatId(c)) THEN BOOLEAN ELSE {TRUE} :
        /\ SentIn(bot_msgs, BotChats) + 2 <= MaxBotMsgs
        /\ LET msg_id == Len(bot_msgs[c]) + 1
               r == bot_message_dispatch(redis, sender_id, EventChatId(c),
                                         msg_id, raw_text, reply_to, addressed)
           IN  /\ bot_msgs' = [bot_msgs EXCEPT
                      ![c] = @ \o <<UserMsg(raw_text, reply_to)>> \o r.out]
               /\ redis' = r.redis
               /\ monitored_chats' = r.monitored_chats
               /\ index' = r.index
               /\ calls' = IF r.raised # ""
                           THEN r.calls \o <<Raised(r.raised)>> ELSE r.calls
               /\ ev' = SentBy("message", sender_id, EventChatId(c), msg_id,
                               raw_text, addressed)
        /\ UNCHANGED <<gatefixed, nfront>>

\* The user sender_id presses a control of the bot's message id in chat c.
GatePress ==
    \E c \in BotChats :
    \E sender_id \in SendersIn(c), id \in DOMAIN bot_msgs[c] :
    \E payload \in Payloads(bot_msgs[c][id]) :
        /\ nfront < MaxFrontOps
        /\ nfront' = nfront + 1
        /\ LET r == _callback_handler(redis, bot_msgs[c], EventChatId(c), id,
                                      payload)
               picks == payload # <<>> /\ payload[1] = "select_chat"
               msgs == IF picks
                       THEN [r.msgs EXCEPT ![id].selected =
                               CHOOSE x \in Chats : chat_selection(x) = payload]
                       ELSE r.msgs
           IN  /\ bot_msgs' = [bot_msgs EXCEPT ![c] = msgs]
               /\ redis' = r.redis
               /\ calls' = IF r.raised # ""
                           THEN r.calls \o <<Raised(r.raised)>> ELSE r.calls
               /\ ev' = SentBy("callback", sender_id, EventChatId(c), id,
                               payload, TRUE)
        /\ UNCHANGED <<gatefixed, monitored_chats, index>>

\* The bots started in private mode or not, the index empty or not; chat 1
\* holds one message on the platform.
GateInit ==
    /\ monitor_all = FALSE
    /\ cloudstorage = TRUE
    /\ excluded_chats = {}
    /\ nops = 0
    /\ nbackfills = 0
    /\ index \in {EmptyBag, FrontIndex}
    /\ monitored_chats = list_indexed_chats(index)
    /\ platform = <<Message(1, "<")>>
    /\ dynamo = {}
    /\ bf = Idle
    /\ ev = NoEvent
    /\ calls = <<>>
    /\ fcfg \in [no_redis : {TRUE}, page_len : {1}, private_mode : BOOLEAN,
                 private_whitelist : Whitelists]
    /\ redis = EmptyStore
    /\ bot_msgs = [c \in BotChats |-> <<>>]
    /\ nfront = 0
    /\ rendered = NoRender

GateNext ==
    \/ GateMessage
    \/ GatePress

GateSpec == GateInit /\ [][GateNext]_vars

\* ------------------------------------------- the chat with the bot itself
\* (await self.bot.get_me()).id: the bot's user id, which is also the id of
\* the private chat the session's user has with the bot (chat 2).
BotId == 2

\* BotFrontend.start on the back end's excluded set:
\* self.backend.excluded_chats.add((await self.bot.get_me()).id)
start(excluded) == excluded \cup {BotId}

\* The state once the front end has started on a freshly constructed back
\* end: the configured excluded set with the bot's id added.
StartedInit ==
    /\ monitor_all \in BOOLEAN
    /\ cloudstorage \in BOOLEAN
    /\ excluded_chats \in {start(excluded) : excluded \in {{}, {2}}}
    /\ nops = 0
    /\ nbackfills = 0
    /\ index = EmptyBag
    /\ monitored_chats = list_indexed_chats(index)
    /\ platform = <<Message(1, "<")>>
    /\ dynamo \in IF cloudstorage
                 THEN {{}, {TelegramMessage(1, 1, "<", DateOf(1))}}
                 ELSE {{}}
    /\ bf = Idle
    /\ ev = NoEvent
    /\ calls = <<>>
    /\ FrontIdle

StartedSpec == StartedInit /\ [][Next]_vars

\* ================================================================ properties
\* The message of a one-message event and what the pipeline sees of it.
EvId(e) == CHOOSE i \in e.ids : TRUE
EvShare(e) == get_share_id(e.chat_id)
EvUrl(e) == Url(EvShare(e), EvId(e))

\* The rule of the Monitoring State: with monitor_all every chat but the
\* excluded ones, otherwise the monitored ones.
Policy(c) ==
    \/ monitor_all /\ c \notin excluded_chats
    \/ ~monitor_all /\ c \in monitored_chats

HasCall(cs, op) == \E k \in DOMAIN cs : cs[k].op = op
RowsOf(db, chat_id, message_id) ==
    {r \in db : r.chatId = chat_id /\ r.messageId = message_id}

\* C1: in every monitoring state and for every raw chat id c,
\* should_monitor(c) is true exactly when the policy admits canonicalize(c).
C1_ShouldMonitorIffPolicy ==
    \A c \in RawIds : _should_monitor(c) <=> Policy(get_share_id(c))

\* C1 witness: with monitor_all false the monitored set holds chat 1 and not
\* chat 2, and a new message of chat 1 in its full form was gated in.
C1_Witness ==
    /\ ~monitor_all
    /\ ev.kind = "new" /\ ev.chat_id = -101
    /\ _should_monitor(-101) /\ ~_should_monitor(2)
    /\ HasCall(calls, "add")

\* C2: a live new-message or edit event in a chat the policy does not admit
\* issues no call and leaves the index, the archive and the monitored set
\* as they were.
C2_GatedOutNoEffect ==
    [][(ev'.kind \in {"new", "edit"} /\ ~Policy(EvShare(ev')))
        => /\ calls' = <<>>
           /\ index' = index
           /\ dynamo' = dynamo
           /\ monitored_chats' = monitored_chats]_vars

\* C2 witness: a new message with text arrived in a chat that is not
\* monitored while archival is enabled.
C2_Witness ==
    /\ ev.kind = "new" /\ ~Policy(EvShare(ev))
    /\ cloudstorage
    /\ _extract_text(platform[EvId(ev)].text) # ""

\* C3: with monitor_all false and the chat monitored, a new message with text
\* adds exactly one document, the only one under its url, holding the
\* extracted text; an edit to a text of a message that has one document
\* leaves one document under the url, holding the edited text, and the
\* document count as it was.
C3_NewThenEdit ==
    [][/\ (/\ ev'.kind = "new"
            /\ ~monitor_all /\ EvShare(ev') \in monitored_chats
            /\ _extract_text(platform'[EvId(ev')].text) # "")
           => /\ doc_count(index') = doc_count(index) + 1
              /\ CountUrl(index', EvUrl(ev')) = 1
              /\ \A r \in UnderUrl(index', EvUrl(ev')) :
                     /\ r.content = _extract_text(platform'[EvId(ev')].text)
                     /\ r.chat_id = EvShare(ev')
       /\ (/\ ev'.kind = "edit"
            /\ ~monitor_all /\ EvShare(ev') \in monitored_chats
            /\ _extract_text(platform'[EvId(ev')].text) # ""
            /\ CountUrl(index, EvUrl(ev')) = 1)
           => /\ doc_count(index') = doc_count(index)
              /\ CountUrl(index', EvUrl(ev')) = 1
              /\ \A r \in UnderUrl(index', EvUrl(ev')) :
                     r.content = _extract_text(platform'[EvId(ev')].text)]_vars

\* C3 witness: message 2, indexed when it arrived, was edited to " b" and
\* its one document holds "b".
C3_Witness ==
    /\ ev.kind = "edit" /\ EvId(ev) = 2
    /\ ~monitor_all /\ EvShare(ev) \in monitored_chats
    /\ platform[2].text = " b"
    /\ CountUrl(index, EvUrl(ev)) = 1
    /\ \A r \in UnderUrl(index, EvUrl(ev)) :
           r.content = "b" /\ r.sender = SenderOf(2) /\ r.chat_id = EvShare(ev)
    /\ calls[1] = Call("update", EvUrl(ev), 1)

\* C4: an edit with text in a monitored chat, of a message with no document,
\* leaves the index as the new-message handler would have left it.
C4_EditOfMissingIsAdd ==
    [][(/\ ev'.kind = "edit"
        /\ _should_monitor(ev'.chat_id)
        /\ _extract_text(platform'[EvId(ev')].text) # ""
        /\ UnderUrl(index, EvUrl(ev')) = {})
       => index' = client_message_handler(
                       ev'.chat_id, EvId(ev'), platform'[EvId(ev')].text).index
      ]_vars

\* C5 (as claimed): after a delete notification with a chat id no listed
\* message has a document, and the chat is empty if it had no other
\* documents.
C5_DeletedAreGone ==
    [][(ev'.kind = "delete" /\ ev'.chat_id # NoChat)
       => LET share == EvShare(ev')
              urls == {Url(share, i) : i \in ev'.ids}
          IN  /\ \A u \in urls : UnderUrl(index', u) = {}
              /\ (\A r \in BagToSet(index) : r.chat_id = share => r.url \in urls)
                     => is_empty(index', share)]_vars

\* C5 (amended): the same, for a notification of a chat that should_monitor
\* admits.
C5_DeletedAreGoneWhenMonitored ==
    [][(ev'.kind = "delete" /\ ev'.chat_id # NoChat
            /\ Policy(EvShare(ev')))
       => LET share == EvShare(ev')
              urls == {Url(share, i) : i \in ev'.ids}
          IN  /\ \A u \in urls : UnderUrl(index', u) = {}
              /\ (\A r \in BagToSet(index) : r.chat_id = share => r.url \in urls)
                     => is_empty(index', share)]_vars

\* C5 witness: a notification of a monitored chat removed a document and
\* the chat is empty.
C5_Witness ==
    /\ ev.kind = "delete" /\ ev.chat_id # NoChat
    /\ Policy(EvShare(ev))
    /\ \E k \in DOMAIN calls : calls[k].op = "delete" /\ calls[k].n = 1
    /\ is_empty(index, EvShare(ev))

\* C6: a put_record of a message that has a stored row is rejected and
\* leaves the table as it was, so one row per (chat_id, message_id).
C6_SecondPutRejected ==
    [][(ev'.kind = "put_record"
            /\ RowsOf(dynamo, ev'.chat_id, EvId(ev')) # {})
       => dynamo' = dynamo /\ calls'[1].n = 0]_vars

\* C7: a put_record of a message that has no stored row is stored, whatever
\* rows other messages of the chat have.
C7_OtherMessageStored ==
    [][(ev'.kind = "put_record"
            /\ RowsOf(dynamo, ev'.chat_id, EvId(ev')) = {})
       => /\ calls'[1].n = 1
          /\ Cardinality(RowsOf(dynamo', ev'.chat_id, EvId(ev'))) = 1
          /\ dynamo \subseteq dynamo']_vars

\* C8: with archival enabled, after an edit with text of an archived message
\* of a monitored chat the one row of the message holds the edited text.
C8_EditOverwritesArchive ==
    (/\ ev.kind = "edit"
     /\ cloudstorage
     /\ Policy(EvShare(ev))
     /\ _extract_text(platform[EvId(ev)].text) # ""
     /\ RowsOf(dynamo, EvShare(ev), EvId(ev)) # {})
    => /\ Cardinality(RowsOf(dynamo, EvShare(ev), EvId(ev))) = 1
       /\ \A r \in RowsOf(dynamo, EvShare(ev), EvId(ev)) :
              r.text = platform[EvId(ev)].text

\* C9: with archival enabled, a message of a gated-in chat whose extracted
\* text is empty gets no document and is still handed to the archival, at
\* each entry point: new message, edit, backfill with archival requested.
C9_EmptyTextStillArchived ==
    (/\ ev.kind \in {"new", "edit", "download_step"}
     /\ cloudstorage
     /\ ev.kind = "download_step" => bf.cloud
     /\ Policy(EvShare(ev))
     /\ _extract_text(platform[EvId(ev)].text) = "")
    => /\ ~HasCall(calls, "add") /\ ~HasCall(calls, "update")
       /\ HasCall(calls, "cloud_upload_message")

\* C10: with archival enabled, once a new message of a monitored chat is
\* handled the table holds exactly one row of it.
C10_NewMessageArchived ==
    (ev.kind = "new" /\ cloudstorage /\ Policy(EvShare(ev)))
    => Cardinality(RowsOf(dynamo, EvShare(ev), EvId(ev))) = 1

\* Each buffered document of the backfill in flight has one more copy in the
\* index after the step.
BufferCommitted ==
    \A k \in DOMAIN bf.msg_list :
        CopiesIn(bf.msg_list[k], index') = CopiesIn(bf.msg_list[k], index) + 1

\* C11: when the archival of a message stores nothing (its upload failed),
\* the handler does not raise and the message's document is still added
\* (live new message) or buffered, and committed with the buffer when the
\* range is exhausted (backfill).
C11_ArchivalFailureDoesNotBlockIndexing ==
    [][/\ (/\ ev'.kind = "new"
            /\ HasCall(calls', "cloud_upload_message")
            /\ RowsOf(dynamo', EvShare(ev'), EvId(ev')) = {})
           => /\ ~HasCall(calls', "raise")
              /\ _extract_text(platform'[EvId(ev')].text) # ""
                    => CountUrl(index', EvUrl(ev'))
                           = CountUrl(index, EvUrl(ev')) + 1
       /\ (/\ ev'.kind = "download_step"
            /\ HasCall(calls', "cloud_upload_message")
            /\ RowsOf(dynamo', get_share_id(RawOf(platform[EvId(ev')].chat)),
                      EvId(ev')) = {})
           => /\ ~HasCall(calls', "raise")
              /\ (/\ ~HasCall(calls', "call_back_raise")
                  /\ _extract_text(platform[EvId(ev')].text) # ""
                  /\ ~bf.skip_indexing)
                    => /\ bf'.pc = "iter"
                       /\ Len(bf'.msg_list) = Len(bf.msg_list) + 1
                       /\ bf'.msg_list[Len(bf'.msg_list)].url
                              = Url(bf.share_id, EvId(ev'))
       /\ ev'.kind = "download_commit" => BufferCommitted]_vars

\* C11 witness: a backfill with --cloud handled a message with text, nothing
\* was stored for it, and its document is in the buffer.
C11_Witness ==
    /\ ev.kind = "download_step"
    /\ HasCall(calls, "cloud_upload_message")
    /\ ~HasCall(calls, "raise")
    /\ RowsOf(dynamo, bf.share_id, EvId(ev)) = {}
    /\ bf.pc = "iter"
    /\ Len(bf.msg_list) = 1
    /\ bf.msg_list[1].url = Url(bf.share_id, EvId(ev))

\* C13: a turn of the backfill loop does not write the index; the commit
\* happens with the range exhausted and adds every buffered document, and
\* nothing else, in that one step.
C13_BackfillCommitsInOneBatch ==
    [][/\ ev'.kind = "download_step" => index' = index
       /\ ev'.kind = "download_commit"
             => /\ Remaining = {}
                /\ BufferCommitted
                /\ doc_count(index') = doc_count(index) + Len(bf.msg_list)
                /\ bf'.pc = "idle"
       /\ (bf.pc = "iter" /\ bf'.pc = "iter")
             => /\ Len(bf'.msg_list) >= Len(bf.msg_list)
                /\ \A k \in DOMAIN bf.msg_list :
                       bf'.msg_list[k] = bf.msg_list[k]]_vars

\* C13 witness: a backfill committed two documents in one step.
C13_Witness ==
    /\ ev.kind = "download_commit"
    /\ Len(calls) = 2
    /\ \A k \in DOMAIN calls :
           calls[k].op = "add" /\ CountUrl(index, calls[k].url) >= 1

\* C14: when reading the platform fails during a backfill, every document
\* buffered so far is committed to the index.
C14_ReadFailureCommitsBuffer ==
    [][ev'.kind = "download_failed" => BufferCommitted]_vars

\* C15: the progress callback is invoked once for each message processed,
\* and when an invocation raises the backfill goes on: the call stays in
\* flight and keeps its buffer.
C15_CallbackFailureDoesNotAbort ==
    [][ev'.kind = "download_step"
       => /\ ~HasCall(calls', "raise")
             => Cardinality({k \in DOMAIN calls' :
                                calls'[k].op = "call_back"}) = 1
          /\ HasCall(calls', "call_back_raise")
             => /\ bf'.pc = "iter"
                /\ Len(bf'.msg_list) >= Len(bf.msg_list)]_vars

\* C16 (as claimed): a /download_chat is rejected, with the index, the
\* monitored set and the archive unchanged, exactly when the chat has
\* documents, neither --min nor --max is given and --archive is not given.
C16_RejectedIffNoOptionGiven ==
    [][ev'.kind \in {"download_rejected", "download_start"}
       => /\ ev'.kind = "download_rejected"
             <=> /\ ~is_empty(index, ev'.chat_id)
                 /\ ev'.args.min = 0 /\ ev'.args.max = 0
                 /\ ~ev'.args.archive
          /\ ev'.kind = "download_rejected"
             => /\ index' = index
                /\ monitored_chats' = monitored_chats
                /\ dynamo' = dynamo]_vars

\* C16 (amended): the same, with "the range in effect is the default one":
\* each of --min and --max is not given, 0, or the default value itself.
C16_RejectedIffDefaultRange ==
    [][ev'.kind \in {"download_rejected", "download_start"}
       => /\ ev'.kind = "download_rejected"
             <=> /\ ~is_empty(index, ev'.chat_id)
                 /\ ev'.args.min \in {0, DefaultMinId}
                 /\ ev'.args.max \in {0, DefaultMaxId}
                 /\ ~ev'.args.archive
          /\ ev'.kind = "download_rejected"
             => /\ index' = index
                /\ monitored_chats' = monitored_chats
                /\ dynamo' = dynamo]_vars

\* C16 witness: a command without options was rejected for a chat that has
\* documents.
C16_Witness ==
    /\ ev.kind = "download_rejected"
    /\ ev.args.min = 0 /\ ev.args.max = 0 /\ ~ev.args.archive
    /\ ~is_empty(index, ev.chat_id)

\* ------------------------------------------------------------------- C17
\* The step handled a page request pressed on a rendered message.
PageTurn == ev'.kind = "callback" /\ ev'.data # <<>> /\ ev'.data[1] = "search_page"
\* The message the callback of the step is attached to.
PressedId == CHOOSE id \in ev'.ids : TRUE
HasEntry(store, chat_id, id) == Key("query_text", chat_id, id) \in DOMAIN store

\* C17: a page turn on a result message whose entry is recorded searches
\* again with exactly the query and the scope the message was first
\* rendered for, at the page the pressed control carries; it edits that
\* message in place, sends no message, and leaves the store (so the
\* recorded query and scope) as it was.
C17_PageTurnReissuesRecordedQuery ==
    [][(PageTurn /\ HasEntry(redis, ev'.chat_id, PressedId)) =>
        LET c == ev'.chat_id
            id == PressedId
            m == bot_msgs[c][id]
        IN  /\ \E n \in 1..(MaxBotMsgs + MaxFrontOps) :
                  /\ page_request(n) = ev'.data
                  /\ calls' = <<SearchCall(m.asked.q, m.asked.chats,
                                           fcfg.page_len, n)>>
                  /\ bot_msgs'[c][id].body.kind = "result"
                  /\ bot_msgs'[c][id].body.page_num = n
            /\ \A d \in BotChats : Len(bot_msgs'[d]) = Len(bot_msgs[d])
            /\ \A d \in BotChats : \A j \in DOMAIN bot_msgs[d] :
                  (d # c \/ j # id) => bot_msgs'[d][j] = bot_msgs[d][j]
            /\ bot_msgs'[c][id].asked = m.asked
            /\ redis' = redis
      ]_vars

\* A second page turn on the same result message: it asks for page 3 of
\* the three documents of "a".
C17_Witness ==
    /\ ev.kind = "callback" /\ ev.data = page_request(3)
    /\ calls # <<>> /\ calls[1].op = "search" /\ calls[1].page_num = 3
    /\ calls[1].q = <<"a">>

\* ------------------------------------------------------------------- C18
\* C18: a page turn on a message with no recorded entry does nothing: no
\* exception, no search, no edit, no write to the store.
C18_PageTurnWithoutEntryIsNoOp ==
    [][(PageTurn /\ ~HasEntry(redis, ev'.chat_id, PressedId)) =>
        /\ calls' = <<>>
        /\ bot_msgs' = bot_msgs
        /\ redis' = redis
      ]_vars

\* A page request pressed on a result message after the store lost its
\* entries.
C18_Witness ==
    /\ ev.kind = "callback" /\ ev.data # <<>> /\ ev.data[1] = "search_page"
    /\ \E id \in ev.ids : /\ ~HasEntry(redis, ev.chat_id, id)
                          /\ bot_msgs[ev.chat_id][id].body.kind = "result"
    /\ calls = <<>>

\* ------------------------------------------------------------------- C19
\* The step handled a message for which a search was issued.
Searched == ev'.kind = "message" /\ calls' # <<>>

\* C19: a query that replies to a prompt on which chat X was selected (the
\* selection entry being in the store) is searched with the scope [X], and
\* [X] is the scope recorded for the result message; any other query is
\* searched unscoped and no scope is recorded for its result message.
C19_ReplyToPromptIsScoped ==
    [][Searched =>
        LET c == ev'.chat_id
            id == PressedId
            P == ev'.reply_to
            recorded == Key("query_chats", c, id + 1)
        IN  IF P # 0 /\ Key("select_chat", c, P) \in DOMAIN redis
            THEN LET X == bot_msgs[c][P].selected IN
                 /\ X \in Chats
                 /\ calls'[1].in_chats = <<X>>
                 /\ recorded \in DOMAIN redis'
                 /\ parse_chats(redis'[recorded].v) = <<X>>
                 /\ bot_msgs'[c][id + 1].body.kind = "result"
            ELSE /\ calls'[1].in_chats = NoScope
                 /\ recorded \notin DOMAIN redis'
      ]_vars

\* A query sent as a reply to the prompt on which chat 2 was selected, with
\* a Redis server as the store.
C19_Witness ==
    /\ ev.kind = "message" /\ ev.reply_to # 0
    /\ calls # <<>> /\ calls[1].in_chats = <<2>>
    /\ ~fcfg.no_redis
    /\ bot_msgs[ev.chat_id][ev.reply_to].selected = 2

\* ------------------------------------------------------------------- C20
\* C20: the strip shows ceil(total_results / page_len) pages; the previous
\* control carries the request of page n - 1 exactly when n is not 1 and is
\* disabled otherwise; the next control carries the request of page n + 1
\* exactly when the gateway reported is_last_page false and is disabled
\* otherwise. With 25 results, page_len 10 and the flag the gateway reports:
\* page 1 next only, page 2 both, page 3 no next.
C20_StripShowsCeilAndControls ==
    LET b == rendered.buttons
        n == rendered.cur_page_num
    IN  /\ b.total_pages * rendered.page_len >= rendered.total_results
        /\ (b.total_pages - 1) * rendered.page_len < rendered.total_results
        /\ b.cur_page_num = n
        /\ b.former_page = (IF n # 1 THEN page_request(n - 1) ELSE <<>>)
        /\ b.next_page = (IF ~rendered.is_last_page THEN page_request(n + 1)
                          ELSE <<>>)
        /\ (/\ rendered.total_results = 25 /\ rendered.page_len = 10
            /\ rendered.is_last_page = is_last_page(25, 10, n)) =>
               /\ n = 1 => b.next_page # <<>> /\ b.former_page = <<>>
               /\ n = 2 => b.next_page # <<>> /\ b.former_page # <<>>
               /\ n = 3 => b.next_page = <<>>
               /\ b.total_pages = 3

\* Page 3 of 25 results under page_len 10, the last page.
C20_Witness ==
    /\ rendered.total_results = 25 /\ rendered.page_len = 10
    /\ rendered.cur_page_num = 3 /\ rendered.is_last_page
    /\ rendered.buttons.total_pages = 3
    /\ rendered.buttons.former_page = page_request(2)

\* ------------------------------------------------------------------- C21
\* The step handled a callback whose payload is of neither known kind.
UnknownKind ==
    /\ ev'.kind = "callback"
    /\ split(ev'.data, "=")[1] \notin {<<"search_page">>, <<"select_chat">>}
\* The payload is empty or blank: the payload of a disabled control.
BlankPayload == strip_text(ev'.data) = <<>>

C21_BlankWitness ==
    /\ ev.kind = "callback" /\ ev.data = <<>>
    /\ calls = <<>>

C23_MonitoredChangesOnlyByRequestBackfillClear ==
    [][/\ \A c \in monitored_chats' \ monitored_chats :
              \/ ev'.kind = "monitor_chat" /\ ev'.chat_id = c
              \/ ev'.kind = "download_commit" /\ get_share_id(ev'.chat_id) = c
       /\ (monitored_chats \ monitored_chats' # {})
              => ev'.kind \in {"clear", "clear_all"}
      ]_vars

\* A backfill failed and left its chat in the monitored set.
C23_FailedBackfillLeavesChatMonitored ==
    /\ ev.kind = "download_failed"
    /\ get_share_id(ev.chat_id) \in monitored_chats
    /\ is_empty(index, get_share_id(ev.chat_id))

\* ------------------------------------------------------------------- C24
\* C24: a clear naming chats raises no error whether or not they are
\* monitored, and afterwards none of the named chats is monitored and the
\* other chats are monitored as before.
C24_ClearOfAbsentChatIsNoOp ==
    [][ev'.kind = "clear" =>
        /\ ~HasCall(calls', "KeyError")
        /\ monitored_chats' = monitored_chats \ ev'.ids
      ]_vars

\* A clear named chat 2, not monitored, before chat 1, monitored: it raised
\* and chat 1 is still monitored.
C24_AbsentChatKeepsOthers ==
    /\ ev.kind = "clear" /\ ev.ids = {1, 2}
    /\ HasCall(calls, "KeyError")
    /\ monitored_chats = {1}

\* ------------------------------------------------------------------- C25
\* C25: whenever the gateway rejects the search of a query or of a page
\* turn as unavailable, the user is sent the try-again response, the search
\* is issued once, and no other error is reported or raised.
C25_UnavailableAnsweredTryAgain ==
    [][HasCall(calls', "search_failed") =>
        LET c == ev'.chat_id IN
        /\ Len(bot_msgs'[c]) > 0
        /\ bot_msgs'[c][Len(bot_msgs'[c])].body.kind = "try_again"
        /\ Cardinality({k \in DOMAIN calls' : calls'[k].op = "search"}) = 1
        /\ ~HasCall(calls', "raise")
      ]_vars

\* An ordinary user's query was rejected and answered with try-again.
C25_UserToldToTryAgain ==
    /\ ev.kind = "message" /\ ev.chat_id # AdminChat
    /\ HasCall(calls, "search_failed") /\ ~HasCall(calls, "raise")
    /\ bot_msgs[ev.chat_id][Len(bot_msgs[ev.chat_id])].body.kind = "try_again"

\* The admin's query was rejected: an error report, and the exception left
\* the handler.
C25_AdminGetsTraceback ==
    /\ ev.kind = "message" /\ ev.chat_id = AdminChat
    /\ HasCall(calls, "search_failed") /\ HasCall(calls, "raise")
    /\ bot_msgs[AdminChat][Len(bot_msgs[AdminChat])].body.kind = "error_traceback"

\* A page turn was rejected: the exception left the handler, the message
\* shows the page it showed before and nothing was sent.
C25_PageTurnUnanswered ==
    /\ ev.kind = "callback" /\ ev.chat_id # AdminChat
    /\ HasCall(calls, "search_failed") /\ HasCall(calls, "raise")
    /\ \E id \in ev.ids : bot_msgs[ev.chat_id][id].body.page_num = 1

\* ------------------------------------------------------------------- C26
\* C26: when a backfill commits, the index holds no record of a message
\* whose delete notification was handled (its delete issued) while the
\* backfill had the message fetched and buffered.
C26_DeleteDuringBackfillWins ==
    [][ev'.kind = "download_commit" =>
        \A m \in bf.deleted : CountUrl(index', Url(bf.share_id, m)) = 0
      ]_vars

\* A backfill committed the record of a message deleted while it was in
\* flight.
C26_DeletedMessageCommitted ==
    /\ ev.kind = "download_commit"
    /\ \E m \in DOMAIN platform :
          /\ platform[m].deleted
          /\ CountUrl(index, Url(platform[m].chat, m)) = 1

\* ------------------------------------------------------------------- C27
\* C27: when a backfill commits, the index holds exactly one record under
\* the url of a message whose edit was handled (its update issued) while
\* the backfill had the pre-edit message fetched and buffered, and its
\* content is the edited text.
C27_EditDuringBackfillWins ==
    [][ev'.kind = "download_commit" =>
        \A m \in bf.edited \ bf.deleted :
            LET url == Url(bf.share_id, m) IN
            /\ CountUrl(index', url) = 1
            /\ \A r \in UnderUrl(index', url) :
                  r.content = _extract_text(platform[m].text)
      ]_vars

\* A backfill committed the pre-edit record of a message next to the record
\* of its edit.
C27_StaleRecordCommitted ==
    /\ ev.kind = "download_commit"
    /\ \E m \in DOMAIN platform :
          /\ ~platform[m].deleted
          /\ CountUrl(index, Url(platform[m].chat, m)) = 2

\* ------------------------------------------------------------------- C28
\* C28: the index holds at most one record per url.
C28_AtMostOneRecordPerUrl ==
    \A r \in BagToSet(index) : CountUrl(index, r.url) <= 1

\* A backfill has committed a second record of a message that a live
\* new-message event had indexed.
C28_BackfillDuplicatesLiveRecord ==
    /\ ev.kind = "download_commit"
    /\ \E r \in BagToSet(index) :
          /\ CountUrl(index, r.url) = 2
          /\ \A d \in UnderUrl(index, r.url) : d.sender # "<absent>"

\* ------------------------------------------------------------------- C29
\* C29: the record a backfill (indexing not skipped) buffers for its commit
\* is the record a live new-message event for the fetched message creates:
\* content the extracted text, url and chat_id from the canonical chat id;
\* a message with empty extracted text adds no record.
C29_BackfillRecordIsLiveRecord ==
    [][(ev'.kind = "download_step" /\ bf'.pc = "iter" /\ ~bf.skip_indexing) =>
        \A id \in ev'.ids :
            LET share_id == get_share_id(bf.chat_id)
                msg_text == _extract_text(platform[id].text)
                live == IndexMsg(msg_text, Url(share_id, id), share_id,
                                 DateOf(id), SenderOf(id))
            IN  bf'.msg_list = IF msg_text = "" THEN bf.msg_list
                               ELSE Append(bf.msg_list, live)
      ]_vars

\* A backfill has committed a record whose content is the truth value of
\* the loop's test, not the text of the message.
C29_CommittedContentIsTrue ==
    /\ ev.kind = "download_commit"
    /\ \E r \in BagToSet(index) :
          /\ r.content = "True"
          /\ r.url[2] \in DOMAIN platform
          /\ _extract_text(platform[r.url[2]].text) # "True"

\* ------------------------------------------------------------------- C30
\* C30: once the front end has started, no live new-message or edit event
\* of the chat with the bot itself changes the index, whatever monitor_all
\* and the monitored set are.
C30_BotChatNeverIndexed ==
    [][(ev'.kind \in {"new", "edit"} /\ get_share_id(ev'.chat_id) = BotId) =>
        index' = index
      ]_vars

\* monitor_all is off, the chat with the bot is in the monitored set, and
\* a message posted in it has been indexed.
C30_BotChatIndexed ==
    /\ ev.kind = "new"
    /\ get_share_id(ev.chat_id) = BotId
    /\ BotId \in excluded_chats
    /\ ~monitor_all
    /\ BotId \in monitored_chats
    /\ \E id \in ev.ids : CountUrl(index, Url(BotId, id)) >= 1

\* ------------------------------------------------------------------- C31
\* C31: with monitor_all false and no backfill in flight, every chat that
\* has a record in the index is in the monitored set.
C31_IndexedChatsAreMonitored ==
    (~monitor_all /\ bf.pc = "idle") =>
        \A c \in Chats : ~is_empty(index, c) => c \in monitored_chats

\* A backfill of a chat that was cleared while the backfill was in flight
\* has committed: the chat has records and is not monitored.
C31_ClearedChatHasRecords ==
    /\ ~monitor_all
    /\ ev.kind = "download_commit"
    /\ bf.pc = "idle"
    /\ ~is_empty(index, ev.chat_id)
    /\ ev.chat_id \notin monitored_chats

\* ------------------------------------------------------------------- C32
\* C32: in private mode, a message, a page-turn or a chat selection sent by
\* a user who is not in the whitelist, in a chat that is not in it either,
\* issues no search and writes no entry of the store.
C32_NoServiceOutsideWhitelist ==
    [][(ev'.kind \in {"message", "callback"}
        /\ private_refused(ev'.sender, ev'.chat_id)) =>
          (~HasOp(calls', "search") /\ redis' = redis)
      ]_vars

\* In private mode a user outside the whitelist has pressed a page control
\* of a result shown in an unlisted chat, and the search was issued.
C32_PageTurnServedOutsideWhitelist ==
    /\ ev.kind = "callback"
    /\ private_refused(ev.sender, ev.chat_id)
    /\ HasOp(calls, "search")

\* ------------------------------------------------------------------- C33
\* The calls only an administrative operation issues, and the commands of
\* the admin.
AdminOps == {"add", "delete_by_term", "cloud_upload_message"}
AdminCommandWords == {"/monitor_chat", "/clear", "/download_chat"}

\* The step is a message or a callback of a chat other than the admin's.
FromOtherChat == ev'.kind \in {"message", "callback"} /\ ev'.chat_id # AdminChat
\* The step leaves the monitored set, the index, the archive and the
\* backfill alone and issues no administrative call.
NoAdminEffect ==
    /\ UNCHANGED <<monitored_chats, index, dynamo, bf>>
    /\ \A op \in AdminOps : ~HasOp(calls', op)
\* The step is a message whose text starts with a command of the admin.
AdminCommandSent ==
    /\ ev'.kind = "message"
    /\ strip_text(ev'.text)[1] \in AdminCommandWords
\* The message of the step was answered as an unknown command.
AnsweredUnknown ==
    LET c == get_share_id(ev'.chat_id)
        n == Len(bot_msgs'[c])
    IN  /\ n = Len(bot_msgs[c]) + 2
        /\ bot_msgs'[c][n] = Notice("unknown_command")

\* C33 as stated: a message or action of a chat other than the admin chat
\* changes no administrative state, and an admin command sent there is
\* answered as an unknown command.
C33_AdminOnlyFromAdminChat ==
    [][FromOtherChat =>
        /\ NoAdminEffect
        /\ AdminCommandSent => AnsweredUnknown
      ]_vars

\* C33 amended: a message or action of a chat other than the admin chat
\* changes no administrative state; an admin command sent there is answered
\* as an unknown command when the message addresses the bot (in a channel)
\* and its sender passes the private-mode test, is answered with the
\* refusal when the sender does not pass, and is not answered otherwise.
C33_AdminOnlyFromAdminChatWhenServed ==
    [][FromOtherChat =>
        /\ NoAdminEffect
        /\ AdminCommandSent =>
             LET c == get_share_id(ev'.chat_id)
                 n == Len(bot_msgs'[c])
             IN
             IF is_channel(ev'.chat_id) /\ ~ev'.addressed
             THEN n = Len(bot_msgs[c]) + 1
             ELSE IF private_refused(ev'.sender, ev'.chat_id)
             THEN bot_msgs'[c][n] = Notice("refused")
             ELSE AnsweredUnknown
      ]_vars

\* /clear 1 sent in the group while chat 1 is monitored and indexed was
\* answered as an unknown command and chat 1 is still monitored and indexed.
C33_Witness ==
    /\ ev.kind = "message"
    /\ ev.chat_id # AdminChat
    /\ ev.text = <<"/clear", " ", "1">>
    /\ ev.addressed
    /\ ~private_refused(ev.sender, ev.chat_id)
    /\ bot_msgs[11][Len(bot_msgs[11])] = Notice("unknown_command")
    /\ 1 \in monitored_chats
    /\ ~is_empty(index, 1)

\* /clear 1 sent in the group by a user outside the whitelist was answered
\* with the refusal.
C33_RefusedWitness ==
    /\ ev.kind = "message"
    /\ ev.chat_id # AdminChat
    /\ ev.text = <<"/clear", " ", "1">>
    /\ ev.addressed
    /\ private_refused(ev.sender, ev.chat_id)
    /\ bot_msgs[11][Len(bot_msgs[11])] = Notice("refused")

====
